---------------------------- MODULE Spec2Model ----------------------------
(* A model of android-xdl-rs: the NativeBridge derive (xdl-derive) that    *)
(* turns a struct schema into a per-field symbol resolution plan and       *)
(* accessors, and the runtime (xdl) that resolves the plan against a       *)
(* loaded library.                                                         *)
(*                                                                         *)
(* Identifiers and symbol names are sequences of one-character strings,    *)
(* so that case conversion, decoration and "the message names X" are       *)
(* computed character by character.                                        *)
EXTENDS Integers, Sequences, FiniteSets, TLC

VARIABLES
    ast,        \* the DeriveInput handed to the derive: struct attrs and fields
    exports,    \* the loaded library: [dynsym, symtab], the names each table resolves
    phase,      \* "source" | "expanded" | "loaded"
    derived,    \* what expand_derive returned (tokens, errors or a panic)
    loaded,     \* what Container::from returned (the api values or the error)
    lookups,    \* the xdl_sym / xdl_dsym calls issued so far, in order
    logs,       \* the log events emitted so far, in order
    ret,        \* the value returned by the last accessor call
    handles,    \* the loader's handles, by handle number: [name, linker, state]
    owned,      \* the handles of the Library values the caller holds
    containers, \* the Containers made so far: [live, lib, api]
    ffi,        \* the xdl_open / xdl_close / dlclose calls issued so far, in order
    outcome     \* the last library or container operation and what it returned

derive_vars == <<ast, exports, phase, derived, loaded, lookups, logs, ret>>
life_vars == <<handles, owned, containers, ffi, outcome>>
vars == <<ast, exports, phase, derived, loaded, lookups, logs, ret,
          handles, owned, containers, ffi, outcome>>

--------------------------------------------------------------------------
(* Bounds of the model.                                                    *)

\* longest field identifier of the case-conversion inputs
MaxNameLen == 3
\* most attribute leaves (options and symbol literals) in one schema
MaxLeaves == 2
\* most fields of a struct in the resolution inputs
MaxFields == 2
\* most explicit symbol candidates of a struct in the resolution inputs
MaxCands == 3
\* most calls of xdl_open in one run
MaxOpens == 2

--------------------------------------------------------------------------
(* Characters and strings.                                                 *)

Range(s) == {s[i] : i \in 1..Len(s)}

to_ascii_uppercase_char(ch) ==
    CASE ch = "a" -> "A"
      [] ch = "b" -> "B"
      [] ch = "f" -> "F"
      [] ch = "g" -> "G"
      [] ch = "x" -> "X"
      [] ch = "y" -> "Y"
      [] ch = "z" -> "Z"
      [] OTHER -> ch

to_ascii_lowercase_char(ch) ==
    CASE ch = "A" -> "a"
      [] ch = "B" -> "b"
      [] ch = "F" -> "f"
      [] ch = "G" -> "g"
      [] ch = "X" -> "x"
      [] ch = "Y" -> "y"
      [] ch = "Z" -> "z"
      [] OTHER -> ch

to_ascii_uppercase(s) == [i \in 1..Len(s) |-> to_ascii_uppercase_char(s[i])]
to_ascii_lowercase(s) == [i \in 1..Len(s) |-> to_ascii_lowercase_char(s[i])]

\* s contains t as a contiguous substring
Contains(s, t) ==
    \E i \in 0..(Len(s) - Len(t)) : \A j \in 1..Len(t) : s[i + j] = t[j]

RECURSIVE trim_start(_)
trim_start(s) ==
    IF s # <<>> /\ Head(s) = " " THEN trim_start(Tail(s)) ELSE s

RECURSIVE trim_end(_)
trim_end(s) ==
    IF s # <<>> /\ s[Len(s)] = " " THEN trim_end(SubSeq(s, 1, Len(s) - 1)) ELSE s

trim(s) == trim_end(trim_start(s))

--------------------------------------------------------------------------
(* internals/case.rs: RenameRule.                                          *)

RenameRules ==
    {"None", "LowerCase", "UpperCase", "PascalCase", "CamelCase", "SnakeCase",
     "ScreamingSnakeCase"}

RENAME_RULES ==
    << [name |-> <<"lowercase">>, rule |-> "LowerCase"],
       [name |-> <<"UPPERCASE">>, rule |-> "UpperCase"],
       [name |-> <<"PascalCase">>, rule |-> "PascalCase"],
       [name |-> <<"camelCase">>, rule |-> "CamelCase"],
       [name |-> <<"snake_case">>, rule |-> "SnakeCase"],
       [name |-> <<"SCREAMING_SNAKE_CASE">>, rule |-> "ScreamingSnakeCase"] >>

\* Ok(rule) is [ok |-> TRUE, rule, ..]; Err(ParseError{unknown}) is [ok |-> FALSE, unknown, ..]
from_str(rename_all_str) ==
    IF \E i \in 1..Len(RENAME_RULES) : RENAME_RULES[i].name = rename_all_str
    THEN LET i == CHOOSE k \in 1..Len(RENAME_RULES) :
                     /\ RENAME_RULES[k].name = rename_all_str
                     /\ \A m \in 1..(k - 1) : RENAME_RULES[m].name # rename_all_str
         IN  [ok |-> TRUE, rule |-> RENAME_RULES[i].rule, unknown |-> <<>>]
    ELSE [ok |-> FALSE, rule |-> "None", unknown |-> rename_all_str]

\* the value of a panicking call: no string holds this element
Panicked == <<"!panic">>

\* variant: the characters after a segment's first are lowercased
RECURSIVE PascalLoop_lower_rest(_, _, _, _)
PascalLoop_lower_rest(field, i, pascal, capitalize) ==
    IF i > Len(field) THEN pascal
    ELSE IF field[i] = "_" THEN PascalLoop_lower_rest(field, i + 1, pascal, TRUE)
    ELSE IF capitalize
         THEN PascalLoop_lower_rest(field, i + 1,
                         Append(pascal, to_ascii_uppercase_char(field[i])), FALSE)
         ELSE PascalLoop_lower_rest(field, i + 1,
                         Append(pascal, to_ascii_lowercase_char(field[i])), FALSE)

\* variant: the first character of a segment has its case swapped
RECURSIVE PascalLoop_swap_first(_, _, _, _)
PascalLoop_swap_first(field, i, pascal, capitalize) ==
    IF i > Len(field) THEN pascal
    ELSE IF field[i] = "_" THEN PascalLoop_swap_first(field, i + 1, pascal, TRUE)
    ELSE IF capitalize
         THEN PascalLoop_swap_first(field, i + 1,
                  Append(pascal, IF to_ascii_uppercase_char(field[i]) = field[i]
                                 THEN to_ascii_lowercase_char(field[i])
                                 ELSE to_ascii_uppercase_char(field[i])), FALSE)
         ELSE PascalLoop_swap_first(field, i + 1, Append(pascal, field[i]), FALSE)

\* the PascalCase loop: one step per character of field[i..]
RECURSIVE PascalLoop(_, _, _, _)
PascalLoop(field, i, pascal, capitalize) ==
    IF i > Len(field) THEN pascal
    ELSE IF field[i] = "_" THEN PascalLoop(field, i + 1, pascal, TRUE)
    ELSE IF capitalize
         THEN PascalLoop(field, i + 1,
                         Append(pascal, to_ascii_uppercase_char(field[i])), FALSE)
         ELSE PascalLoop(field, i + 1, Append(pascal, field[i]), FALSE)

\* variant: snake_case lowercases the name
apply_to_field_snake_lowers(rule, field) ==
    CASE rule = "None" -> field
      [] rule = "SnakeCase" -> to_ascii_lowercase(field)
      [] rule = "LowerCase" -> to_ascii_lowercase(field)
      [] rule = "UpperCase" -> to_ascii_uppercase(field)
      [] rule = "PascalCase" -> PascalLoop(field, 1, <<>>, TRUE)
      [] rule = "CamelCase" ->
            LET pascal == PascalLoop(field, 1, <<>>, TRUE)
            IN  IF Len(pascal) < 1 THEN Panicked
                ELSE to_ascii_lowercase(SubSeq(pascal, 1, 1))
                         \o SubSeq(pascal, 2, Len(pascal))
      [] rule = "ScreamingSnakeCase" -> to_ascii_uppercase(field)

apply_to_field(rule, field) ==
    CASE rule \in {"None", "SnakeCase"} -> field
      [] rule = "LowerCase" -> to_ascii_lowercase(field)
      [] rule = "UpperCase" -> to_ascii_uppercase(field)
      [] rule = "PascalCase" -> PascalLoop(field, 1, <<>>, TRUE)
      [] rule = "CamelCase" ->
            LET pascal == PascalLoop(field, 1, <<>>, TRUE)
            IN  \* pascal[..1] panics when pascal has no first byte
                IF Len(pascal) < 1 THEN Panicked
                ELSE to_ascii_lowercase(SubSeq(pascal, 1, 1))
                         \o SubSeq(pascal, 2, Len(pascal))
      [] rule = "ScreamingSnakeCase" -> to_ascii_uppercase(field)

\* variant: the first rule always wins
or_rule_first(self, rule_b) == self

or(self, rule_b) ==
    IF self = "None" THEN rule_b ELSE self

--------------------------------------------------------------------------
(* The attribute token trees the parsers read.  A meta item is a path with *)
(* nothing after it (logger), = expr after it, or a parenthesised list *)
(* of meta items after it.  Literal values are sequences of strings.       *)

NoExpr == [k |-> "none", value |-> <<>>, suffix |-> <<>>, elems |-> <<>>]
LitStr(v, sfx) == [k |-> "str", value |-> v, suffix |-> sfx, elems |-> <<>>]
LitCStr(v, sfx) == [k |-> "cstr", value |-> v, suffix |-> sfx, elems |-> <<>>]
LitBool(b) ==
    [k |-> "bool", value |-> IF b THEN <<"true">> ELSE <<"false">>,
     suffix |-> <<>>, elems |-> <<>>]
LitInt == [k |-> "int", value |-> <<"1">>, suffix |-> <<>>, elems |-> <<>>]
ExprArray(es) == [k |-> "array", value |-> <<>>, suffix |-> <<>>, elems |-> es]

ArgNone == [t |-> "none", expr |-> NoExpr, items |-> <<>>]
ArgEq(e) == [t |-> "eq", expr |-> e, items |-> <<>>]
ArgList(l) == [t |-> "list", expr |-> NoExpr, items |-> l]
Meta(p, a) == [path |-> p, arg |-> a]

\* a diagnostic pushed to the Ctxt: the message and the text it quotes
Diag(m, a) == [msg |-> m, arg |-> a]

\* internals (Ctxt): the diagnostics recorded so far, oldest first.  Both
\* recorders add one diagnostic and let the caller go on; check() is Err
\* exactly when a diagnostic was recorded.
Ctxt_new == <<>>
Ctxt_error_spanned_by(errs, d) == Append(errs, d)
Ctxt_syn_error(errs, d) == Append(errs, d)
Ctxt_check(errs) == [ok |-> errs = <<>>, errors |-> errs]

\* Option<bool>
Some(b) == IF b THEN "Some(true)" ELSE "Some(false)"
unwrap_or(o, d) == IF o = "None" THEN d ELSE o = "Some(true)"
option_or(o, p) == IF o = "None" THEN p ELSE o

--------------------------------------------------------------------------
(* internals/attr.rs: literal readers.  A reader returns                   *)
(*   [err: the reader returned Err(error), some/lit: Ok(Some(lit)),        *)
(*    errs: the Ctxt's diagnostics afterwards].                            *)

unknown_attribute(meta) == Diag("unknown attribute", <<meta.path>>)

\* meta.value()? fails when no = follows the path
expected_eq(meta) == Diag("expected =", <<meta.path>>)

get_lit_str(errs, attr_name, meta) ==
    IF meta.arg.t # "eq"
    THEN [err |-> TRUE, error |-> expected_eq(meta), some |-> FALSE,
          lit |-> NoExpr, errs |-> errs]
    ELSE LET expr == meta.arg.expr IN
         IF expr.k = "str"
         THEN [err |-> FALSE, error |-> Diag("", <<>>), some |-> TRUE, lit |-> expr,
               errs |-> IF expr.suffix # <<>>
                        THEN Ctxt_error_spanned_by(errs, Diag("unexpected suffix on string literal",
                                               expr.suffix))
                        ELSE errs]
         ELSE [err |-> FALSE, error |-> Diag("", <<>>), some |-> FALSE, lit |-> NoExpr,
               errs |-> Ctxt_error_spanned_by(errs, Diag("expected attribute to be a string",
                                          <<attr_name>>))]

\* variant: an option written without a value is left unset
get_lit_bool_no_default(errs, attr_name, meta) ==
    IF meta.arg.t # "eq"
    THEN [err |-> FALSE, error |-> Diag("", <<>>), some |-> FALSE,
          lit |-> NoExpr, errs |-> errs]
    ELSE LET expr == meta.arg.expr IN
         IF expr.k = "bool"
         THEN [err |-> FALSE, error |-> Diag("", <<>>), some |-> TRUE, lit |-> expr,
               errs |-> errs]
         ELSE [err |-> FALSE, error |-> Diag("", <<>>), some |-> FALSE, lit |-> NoExpr,
               errs |-> Ctxt_error_spanned_by(errs, Diag("expected attribute to be a bool",
                                          <<attr_name>>))]

get_lit_bool(errs, attr_name, meta) ==
    IF meta.arg.t # "eq"
    THEN [err |-> FALSE, error |-> Diag("", <<>>), some |-> TRUE,
          lit |-> LitBool(TRUE), errs |-> errs]
    ELSE LET expr == meta.arg.expr IN
         IF expr.k = "bool"
         THEN [err |-> FALSE, error |-> Diag("", <<>>), some |-> TRUE, lit |-> expr,
               errs |-> errs]
         ELSE [err |-> FALSE, error |-> Diag("", <<>>), some |-> FALSE, lit |-> NoExpr,
               errs |-> Ctxt_error_spanned_by(errs, Diag("expected attribute to be a bool",
                                          <<attr_name>>))]

lit_bool_value(lit) == lit.value = <<"true">>

--------------------------------------------------------------------------
(* internals/attr.rs: ImplicitMetadata and SymbolMetadata.                 *)
(* parse_nested_meta runs the closure on each item in turn and stops at    *)
(* the first Err; from_ast pushes that Err to the Ctxt and returns the     *)
(* metadata as built so far.  (syn may add an "unexpected token" error for *)
(* the tokens an aborted nested list left unread; only the diagnostics the *)
(* crate itself produces are recorded here.)                               *)

ImplicitDefault == [rename |-> "None", debug |-> "None"]
\* Option<String>
NoneStr == [some |-> FALSE, v |-> <<>>]
SomeStr(v) == [some |-> TRUE, v |-> v]
SymbolDefault == [prefix |-> NoneStr, suffix |-> NoneStr]

RECURSIVE ImplicitLoop(_, _, _)
ImplicitLoop(items, i, st) ==
    IF i > Len(items) THEN st
    ELSE LET meta == items[i] IN
         IF meta.path = "rename"
         THEN LET r == get_lit_str(st.errs, "rename", meta) IN
              IF r.err THEN [st EXCEPT !.errs = Ctxt_syn_error(r.errs, r.error)]
              ELSE IF r.some
              THEN LET p == from_str(r.lit.value) IN
                   IF p.ok
                   THEN ImplicitLoop(items, i + 1,
                            [md |-> [st.md EXCEPT !.rename = p.rule], errs |-> r.errs])
                   ELSE ImplicitLoop(items, i + 1,
                            [md |-> st.md,
                             errs |-> Ctxt_error_spanned_by(r.errs,
                                 Diag("unknown rename rule, expected one of lowercase, UPPERCASE, PascalCase, camelCase, snake_case, SCREAMING_SNAKE_CASE",
                                      p.unknown))])
              ELSE ImplicitLoop(items, i + 1, [md |-> st.md, errs |-> r.errs])
         ELSE IF meta.path = "debug"
         THEN LET r == get_lit_bool(st.errs, "debug", meta) IN
              IF r.err THEN [st EXCEPT !.errs = Ctxt_syn_error(r.errs, r.error)]
              ELSE IF r.some
              THEN ImplicitLoop(items, i + 1,
                       [md |-> [st.md EXCEPT !.debug = Some(lit_bool_value(r.lit))],
                        errs |-> r.errs])
              ELSE ImplicitLoop(items, i + 1, [md |-> st.md, errs |-> r.errs])
         ELSE [st EXCEPT !.errs = Ctxt_syn_error(st.errs, unknown_attribute(meta))]

\* parenthesized!() fails when the path is not followed by a list
ImplicitMetadata_from_ast(errs, meta) ==
    IF meta.arg.t # "list"
    THEN [md |-> ImplicitDefault,
          errs |-> Ctxt_syn_error(errs, Diag("expected parentheses", <<meta.path>>))]
    ELSE ImplicitLoop(meta.arg.items, 1, [md |-> ImplicitDefault, errs |-> errs])

RECURSIVE SymbolLoop(_, _, _)
SymbolLoop(items, i, st) ==
    IF i > Len(items) THEN st
    ELSE LET meta == items[i] IN
         IF meta.path \in {"prefix", "suffix"}
         THEN LET r == get_lit_str(st.errs, meta.path, meta) IN
              IF r.err THEN [st EXCEPT !.errs = Ctxt_syn_error(r.errs, r.error)]
              ELSE IF r.some /\ r.lit.value # <<>>
              THEN SymbolLoop(items, i + 1,
                       [md |-> IF meta.path = "prefix"
                               THEN [st.md EXCEPT !.prefix = SomeStr(r.lit.value)]
                               ELSE [st.md EXCEPT !.suffix = SomeStr(r.lit.value)],
                        errs |-> r.errs])
              ELSE SymbolLoop(items, i + 1, [md |-> st.md, errs |-> r.errs])
         ELSE [st EXCEPT !.errs = Ctxt_syn_error(st.errs, unknown_attribute(meta))]

SymbolMetadata_from_ast(errs, meta) ==
    IF meta.arg.t # "list"
    THEN [md |-> SymbolDefault,
          errs |-> Ctxt_syn_error(errs, Diag("expected parentheses", <<meta.path>>))]
    ELSE SymbolLoop(meta.arg.items, 1, [md |-> SymbolDefault, errs |-> errs])

--------------------------------------------------------------------------
(* internals/attr.rs: get_symbol_array.                                    *)

String(v) == [kind |-> "String", value |-> v]
CString(v) == [kind |-> "CString", value |-> v]
SymbolSpec(n, d) == [name |-> n, debug |-> d]

\* variant: a suffix other than d or debug is ignored
has_debug_suffix_lenient(errs, lit) ==
    [debug |-> trim(lit.suffix) \in {<<"d">>, <<"debug">>}, errs |-> errs]

\* the closure has_debug_suffix: [debug, errs]
has_debug_suffix(errs, lit) ==
    CASE trim(lit.suffix) = <<>> -> [debug |-> FALSE, errs |-> errs]
      [] trim(lit.suffix) \in {<<"d">>, <<"debug">>} -> [debug |-> TRUE, errs |-> errs]
      [] OTHER ->
            [debug |-> FALSE,
             errs |-> Ctxt_error_spanned_by(errs, Diag("unexpected suffix on string literal",
                                        trim(lit.suffix)))]

\* the flat_map over the array's elements, collected in order
RECURSIVE SymbolElems(_, _, _)
SymbolElems(elems, i, st) ==
    IF i > Len(elems) THEN st
    ELSE LET expr == elems[i] IN
         IF expr.k \in {"str", "cstr"}
         THEN LET d == has_debug_suffix(st.errs, expr)
                  name == IF expr.k = "str" THEN String(expr.value)
                                            ELSE CString(expr.value)
              IN  SymbolElems(elems, i + 1,
                      [symbols |-> Append(st.symbols, SymbolSpec(name, d.debug)),
                       errs |-> d.errs])
         ELSE SymbolElems(elems, i + 1,
                  [symbols |-> st.symbols,
                   errs |-> Ctxt_error_spanned_by(st.errs,
                       Diag("expected string literal in symbol array, found invalid element",
                            expr.value))])

get_symbol_array(errs, meta) ==
    IF meta.arg.t # "eq"
    THEN [err |-> TRUE, error |-> expected_eq(meta), symbols |-> <<>>, errs |-> errs]
    ELSE LET expr == meta.arg.expr IN
         IF expr.k \in {"array", "str"}
         THEN LET expr_array == IF expr.k = "array" THEN expr.elems ELSE <<expr>>
                  st == SymbolElems(expr_array, 1, [symbols |-> <<>>, errs |-> errs])
              IN  [err |-> FALSE, error |-> Diag("", <<>>), symbols |-> st.symbols,
                   errs |-> st.errs]
         ELSE [err |-> TRUE,
               error |-> Diag("expected symbol attribute to be a string or array of strings",
                              expr.value),
               symbols |-> <<>>, errs |-> errs]

--------------------------------------------------------------------------
(* internals/attr.rs: Metadata (struct level) and FieldMetadata.           *)
(* Each #[native(...)] attribute is parsed on its own: an Err from the     *)
(* closure ends that attribute, is pushed to the Ctxt, and the next        *)
(* attribute is parsed.                                                    *)

MetadataDefault ==
    [implicit |-> ImplicitDefault, symbol |-> SymbolDefault, logger |-> FALSE]

FieldMetadataDefault ==
    [implicit |-> ImplicitDefault, symbols |-> <<>>, logger |-> "None"]

RECURSIVE MetadataItems(_, _, _)
MetadataItems(items, i, st) ==
    IF i > Len(items) THEN st
    ELSE LET meta == items[i] IN
         IF meta.path = "implicit"
         THEN LET r == ImplicitMetadata_from_ast(st.errs, meta) IN
              MetadataItems(items, i + 1,
                  [md |-> [st.md EXCEPT !.implicit = r.md], errs |-> r.errs])
         ELSE IF meta.path = "symbol"
         THEN LET r == SymbolMetadata_from_ast(st.errs, meta) IN
              MetadataItems(items, i + 1,
                  [md |-> [st.md EXCEPT !.symbol = r.md], errs |-> r.errs])
         ELSE IF meta.path = "logger"
         THEN LET r == get_lit_bool(st.errs, "logger", meta) IN
              IF r.err THEN [st EXCEPT !.errs = Ctxt_syn_error(r.errs, r.error)]
              ELSE IF r.some
              THEN MetadataItems(items, i + 1,
                       [md |-> [st.md EXCEPT !.logger = lit_bool_value(r.lit)],
                        errs |-> r.errs])
              ELSE MetadataItems(items, i + 1, [md |-> st.md, errs |-> r.errs])
         ELSE [st EXCEPT !.errs = Ctxt_syn_error(st.errs, unknown_attribute(meta))]

RECURSIVE MetadataAttrs(_, _, _)
MetadataAttrs(attrs, i, st) ==
    IF i > Len(attrs) THEN st
    ELSE MetadataAttrs(attrs, i + 1, MetadataItems(attrs[i], 1, st))

Metadata_from_ast(errs, attrs) ==
    MetadataAttrs(attrs, 1, [md |-> MetadataDefault, errs |-> errs])

\* variant: a repeated implicit(...) is merged into the earlier one
RECURSIVE FieldMetadataItems_merging(_, _, _)
FieldMetadataItems_merging(items, i, st) ==
    IF i > Len(items) THEN st
    ELSE LET meta == items[i] IN
         IF meta.path = "implicit"
         THEN LET r == ImplicitMetadata_from_ast(st.errs, meta)
                  merged == [rename |-> or(r.md.rename, st.md.implicit.rename),
                             debug |-> option_or(r.md.debug, st.md.implicit.debug)]
              IN  FieldMetadataItems_merging(items, i + 1,
                      [md |-> [st.md EXCEPT !.implicit = merged], errs |-> r.errs])
         ELSE IF meta.path = "symbol"
         THEN LET r == get_symbol_array(st.errs, meta) IN
              IF r.err THEN [st EXCEPT !.errs = Ctxt_syn_error(r.errs, r.error)]
              ELSE FieldMetadataItems_merging(items, i + 1,
                       [md |-> [st.md EXCEPT !.symbols = r.symbols], errs |-> r.errs])
         ELSE IF meta.path = "logger"
         THEN LET r == get_lit_bool(st.errs, "logger", meta) IN
              IF r.err THEN [st EXCEPT !.errs = Ctxt_syn_error(r.errs, r.error)]
              ELSE IF r.some
              THEN FieldMetadataItems_merging(items, i + 1,
                       [md |-> [st.md EXCEPT !.logger = Some(lit_bool_value(r.lit))],
                        errs |-> r.errs])
              ELSE FieldMetadataItems_merging(items, i + 1, [md |-> st.md, errs |-> r.errs])
         ELSE [st EXCEPT !.errs = Ctxt_syn_error(st.errs, unknown_attribute(meta))]

RECURSIVE FieldMetadataItems(_, _, _)
FieldMetadataItems(items, i, st) ==
    IF i > Len(items) THEN st
    ELSE LET meta == items[i] IN
         IF meta.path = "implicit"
         THEN LET r == ImplicitMetadata_from_ast(st.errs, meta) IN
              FieldMetadataItems(items, i + 1,
                  [md |-> [st.md EXCEPT !.implicit = r.md], errs |-> r.errs])
         ELSE IF meta.path = "symbol"
         THEN LET r == get_symbol_array(st.errs, meta) IN
              IF r.err THEN [st EXCEPT !.errs = Ctxt_syn_error(r.errs, r.error)]
              ELSE FieldMetadataItems(items, i + 1,
                       [md |-> [st.md EXCEPT !.symbols = r.symbols], errs |-> r.errs])
         ELSE IF meta.path = "logger"
         THEN LET r == get_lit_bool(st.errs, "logger", meta) IN
              IF r.err THEN [st EXCEPT !.errs = Ctxt_syn_error(r.errs, r.error)]
              ELSE IF r.some
              THEN FieldMetadataItems(items, i + 1,
                       [md |-> [st.md EXCEPT !.logger = Some(lit_bool_value(r.lit))],
                        errs |-> r.errs])
              ELSE FieldMetadataItems(items, i + 1, [md |-> st.md, errs |-> r.errs])
         ELSE [st EXCEPT !.errs = Ctxt_syn_error(st.errs, unknown_attribute(meta))]

RECURSIVE FieldMetadataAttrs(_, _, _)
FieldMetadataAttrs(attrs, i, st) ==
    IF i > Len(attrs) THEN st
    ELSE FieldMetadataAttrs(attrs, i + 1, FieldMetadataItems(attrs[i], 1, st))

FieldMetadata_from_ast(errs, attrs) ==
    FieldMetadataAttrs(attrs, 1, [md |-> FieldMetadataDefault, errs |-> errs])

--------------------------------------------------------------------------
(* internals/ast.rs: Metadata::from_ast.  The struct attributes are parsed *)
(* first, then each named field's, in declaration order.  Anything but a   *)
(* struct with named fields pushes a diagnostic and yields None.           *)

RECURSIVE AstFields(_, _, _)
AstFields(fields, i, st) ==
    IF i > Len(fields) THEN st
    ELSE LET r == FieldMetadata_from_ast(st.errs, fields[i].attrs) IN
         AstFields(fields, i + 1,
             [fields |-> Append(st.fields,
                                [ident |-> fields[i].ident, attrs |-> r.md,
                                 ty |-> fields[i].ty]),
              errs |-> r.errs])

ast_Metadata_from_ast(errs, input) ==
    LET a == Metadata_from_ast(errs, input.attrs) IN
    IF input.data = "named_struct"
    THEN LET f == AstFields(input.fields, 1, [fields |-> <<>>, errs |-> a.errs]) IN
         [some |-> TRUE, attrs |-> a.md, fields |-> f.fields, errs |-> f.errs]
    ELSE [some |-> FALSE, attrs |-> a.md, fields |-> <<>>,
          errs |-> Ctxt_error_spanned_by(a.errs,
              Diag("NativeBridge can only be derived for structs with named fields.",
                   <<>>))]

--------------------------------------------------------------------------
(* Field types, as far as the derive looks into them: the syn::Type node,  *)
(* for a path whose last segment is Option<T> the node of T, whether a     *)
(* bare function is variadic and whether a reference is mutable.           *)

Ty(node, inner, variadic, mut, text) ==
    [node |-> node, inner |-> inner, variadic |-> variadic, mut |-> mut, text |-> text]

TyFn == Ty("BareFn", "none", FALSE, FALSE, "fn()")
TyVariadicFn == Ty("BareFn", "none", TRUE, FALSE, "fn(...)")
TyRef == Ty("Reference", "none", FALSE, FALSE, "&T")
TyRefMut == Ty("Reference", "none", FALSE, TRUE, "&mut T")
TyPtr == Ty("Ptr", "none", FALSE, FALSE, "*const T")
TyI32 == Ty("Path", "none", FALSE, FALSE, "i32")
TyOptFn == Ty("Path", "BareFn", FALSE, FALSE, "Option<fn()>")
TyOptVariadicFn == Ty("Path", "BareFn", TRUE, FALSE, "Option<fn(...)>")
TyOptRef == Ty("Path", "Reference", FALSE, FALSE, "Option<&T>")
TyOptRefMut == Ty("Path", "Reference", FALSE, TRUE, "Option<&mut T>")
TyOptPtr == Ty("Path", "Ptr", FALSE, FALSE, "Option<*const T>")
TyOptI32 == Ty("Path", "Path", FALSE, FALSE, "Option<i32>")

\* Some(inner) exactly for a path whose last segment is Option<one type>
get_option_inner_type(ty) ==
    [some |-> ty.node = "Path" /\ ty.inner # "none", node |-> ty.inner]

--------------------------------------------------------------------------
(* wrapper.rs: generate_symbols_load_expr.                                 *)

\* lines 60-76: the candidates of a field, the explicit ones or the one
\* derived from the field name
\* variant: the implicit candidate is appended to the explicit ones
field_symbols_always_implicit(field, meta) ==
    LET implicit == field.attrs.implicit
        ast_implicit == meta.attrs.implicit
        symbol == apply_to_field(or(implicit.rename, ast_implicit.rename), field.ident)
    IN  field.attrs.symbols \o
        << SymbolSpec(String(symbol),
                      unwrap_or(option_or(implicit.debug, ast_implicit.debug), FALSE)) >>

\* variant: no implicit candidate is synthesized
field_symbols_no_fallback(field, meta) == field.attrs.symbols

field_symbols(field, meta) ==
    IF field.attrs.symbols = <<>>
    THEN LET implicit == field.attrs.implicit
             ast_implicit == meta.attrs.implicit
             symbol == apply_to_field(or(implicit.rename, ast_implicit.rename),
                                      field.ident)
         IN  << SymbolSpec(String(symbol),
                           unwrap_or(option_or(implicit.debug, ast_implicit.debug),
                                     FALSE)) >>
    ELSE field.attrs.symbols

\* variant: prefix and suffix are used as written, untrimmed
decorate_untrimmed(spec, field, meta) ==
    LET symbol ==
            IF spec.name.kind = "String"
            THEN LET s1 == IF meta.attrs.symbol.prefix.some
                           THEN meta.attrs.symbol.prefix.v \o spec.name.value
                           ELSE spec.name.value
                 IN  IF meta.attrs.symbol.suffix.some
                     THEN s1 \o meta.attrs.symbol.suffix.v
                     ELSE s1
            ELSE spec.name.value
        logger == unwrap_or(field.attrs.logger, meta.attrs.logger)
    IN  [symbol |-> symbol, debug |-> spec.debug, logger |-> logger]

\* variant: implicit(debug) also switches the explicit candidates to the
\* debug lookup
decorate_implicit_debug(spec, field, meta) ==
    LET symbol ==
            IF spec.name.kind = "String"
            THEN LET s1 == IF meta.attrs.symbol.prefix.some
                           THEN trim(meta.attrs.symbol.prefix.v) \o spec.name.value
                           ELSE spec.name.value
                 IN  IF meta.attrs.symbol.suffix.some
                     THEN s1 \o trim(meta.attrs.symbol.suffix.v)
                     ELSE s1
            ELSE spec.name.value
        logger == unwrap_or(field.attrs.logger, meta.attrs.logger)
        debug == unwrap_or(option_or(field.attrs.implicit.debug,
                                     meta.attrs.implicit.debug), FALSE)
    IN  [symbol |-> symbol, debug |-> spec.debug \/ debug, logger |-> logger]

\* lines 79-95: the name looked up for one candidate, and the field's logger
decorate(spec, field, meta) ==
    LET symbol ==
            IF spec.name.kind = "String"
            THEN LET s1 == IF meta.attrs.symbol.prefix.some
                           THEN trim(meta.attrs.symbol.prefix.v) \o spec.name.value
                           ELSE spec.name.value
                 IN  IF meta.attrs.symbol.suffix.some
                     THEN s1 \o trim(meta.attrs.symbol.suffix.v)
                     ELSE s1
            ELSE spec.name.value
        logger == unwrap_or(field.attrs.logger, meta.attrs.logger)
    IN  [symbol |-> symbol, debug |-> spec.debug, logger |-> logger]

\* the resolution plan of a field: its candidates, decorated, in order
resolution_plan(field, meta) ==
    LET symbols == field_symbols(field, meta)
    IN  [i \in 1..Len(symbols) |-> decorate(symbols[i], field, meta)]

\* lines 96-110: the lookup expression of one candidate
lookup_expr(c) ==
    [op |-> "call",
     ident |-> IF c.debug THEN "debug_symbol" ELSE "symbol",
     symbol |-> c.symbol,
     logger |-> c.logger]

\* line 111: reduce(|acc, expr| acc.or_else(|_| expr)), folding from the left
RECURSIVE reduce_or_else(_, _, _)
reduce_or_else(exprs, i, acc) ==
    IF i > Len(exprs) THEN acc
    ELSE reduce_or_else(exprs, i + 1, [op |-> "or_else", acc |-> acc, expr |-> exprs[i]])

\* variant: the fold nests the other way round, trying the last candidate first
RECURSIVE reduce_or_else_reversed(_, _, _)
reduce_or_else_reversed(exprs, i, acc) ==
    IF i > Len(exprs) THEN acc
    ELSE reduce_or_else_reversed(exprs, i + 1,
                                 [op |-> "or_else", acc |-> exprs[i], expr |-> acc])

\* reduce(..).unwrap() panics on an empty iterator
generate_symbols_load_expr_reversed(field, meta) ==
    LET plan == resolution_plan(field, meta)
        exprs == [i \in 1..Len(plan) |-> lookup_expr(plan[i])]
    IN  IF exprs = <<>> \/ Panicked \in {field_symbols(field, meta)[i].name.value :
                                           i \in 1..Len(plan)}
        THEN [op |-> "panic"]
        ELSE reduce_or_else_reversed(exprs, 2, exprs[1])

generate_symbols_load_expr(field, meta) ==
    LET plan == resolution_plan(field, meta)
        exprs == [i \in 1..Len(plan) |-> lookup_expr(plan[i])]
    IN  IF exprs = <<>> \/ Panicked \in {field_symbols(field, meta)[i].name.value :
                                           i \in 1..Len(plan)}
        THEN [op |-> "panic"]
        ELSE reduce_or_else(exprs, 2, exprs[1])

--------------------------------------------------------------------------
(* wrapper.rs: generate_symbols_load_clause.  One clause per field, in     *)
(* field order:  ident: expr?,  for a function, reference or pointer and   *)
(* ident: expr.ok(),  for an Option.  Any other type pushes a diagnostic.  *)

RECURSIVE LoadClauses(_, _, _)
LoadClauses(meta, i, st) ==
    IF i > Len(meta.fields) THEN st
    ELSE LET field == meta.fields[i] IN
         IF field.ty.node \in {"BareFn", "Reference", "Ptr"}
         THEN LoadClauses(meta, i + 1,
                  [clauses |-> Append(st.clauses,
                                      [ident |-> field.ident, field |-> i,
                                       optional |-> FALSE,
                                       expr |-> generate_symbols_load_expr(field, meta)]),
                   errs |-> st.errs])
         ELSE IF field.ty.node = "Path" /\ get_option_inner_type(field.ty).some
         THEN LoadClauses(meta, i + 1,
                  [clauses |-> Append(st.clauses,
                                      [ident |-> field.ident, field |-> i,
                                       optional |-> TRUE,
                                       expr |-> generate_symbols_load_expr(field, meta)]),
                   errs |-> st.errs])
         ELSE LoadClauses(meta, i + 1,
                  [clauses |-> st.clauses,
                   errs |-> Ctxt_error_spanned_by(st.errs,
                       Diag("unsupported type, expected one of function, reference, pointer",
                            <<field.ty.text>>))])

generate_symbols_load_clause(errs, meta) ==
    LoadClauses(meta, 1, [clauses |-> <<>>, errs |-> errs])

--------------------------------------------------------------------------
(* wrapper.rs: generate_symbols_wrapper and the per-kind generators.  A    *)
(* generated accessor is [name, kind, field, self_mut]; a generator        *)
(* returns the sequence of accessors it emits (empty for None).            *)

Accessor(name, kind, i, self_mut) ==
    [name |-> name, kind |-> kind, field |-> i, self_mut |-> self_mut]

mut_prefix == <<"m", "u", "t", "_">>
has_prefix == <<"h", "a", "s", "_">>

\* variant: a variadic function gets an accessor too
generate_function_wrapper_variadic_too(ident, i, ty) ==
    << Accessor(ident, "call", i, FALSE) >>

generate_function_wrapper(ident, i, ty) ==
    IF ~ty.variadic THEN << Accessor(ident, "call", i, FALSE) >> ELSE <<>>

generate_reference_wrapper(ident, i, ty) ==
    << Accessor(ident, "ref", i, FALSE) >> \o
    (IF ty.mut THEN << Accessor(mut_prefix \o ident, "ref_mut", i, TRUE) >> ELSE <<>>)

generate_optional_function_wrapper(ident, i, ty) ==
    IF ~ty.variadic
    THEN << Accessor(ident, "opt_call", i, FALSE),
            Accessor(has_prefix \o ident, "has", i, FALSE) >>
    ELSE <<>>

generate_optional_reference_wrapper(ident, i, ty) ==
    IF ty.mut
    THEN << Accessor(ident, "opt_ref_mut", i, TRUE) >>
    ELSE << Accessor(ident, "opt_ref", i, FALSE) >>

unsupported_type(ty) == Diag("unsupported type", <<ty.text>>)

RECURSIVE Wrappers(_, _, _)
Wrappers(meta, i, st) ==
    IF i > Len(meta.fields) THEN st
    ELSE LET field == meta.fields[i]
             ty == field.ty
             inner == get_option_inner_type(ty)
             bad == [wrappers |-> st.wrappers,
                     errs |-> Ctxt_error_spanned_by(st.errs, unsupported_type(ty))]
             add(w) == [wrappers |-> st.wrappers \o w, errs |-> st.errs]
         IN  Wrappers(meta, i + 1,
                 CASE ty.node = "BareFn" -> add(generate_function_wrapper(field.ident, i, ty))
                   [] ty.node = "Reference" ->
                         add(generate_reference_wrapper(field.ident, i, ty))
                   [] ty.node = "Ptr" -> add(<<>>)
                   [] ty.node = "Path" /\ inner.some /\ inner.node = "BareFn" ->
                         add(generate_optional_function_wrapper(field.ident, i, ty))
                   [] ty.node = "Path" /\ inner.some /\ inner.node = "Reference" ->
                         add(generate_optional_reference_wrapper(field.ident, i, ty))
                   [] ty.node = "Path" /\ inner.some /\ inner.node = "Ptr" -> add(<<>>)
                   [] OTHER -> bad)

generate_symbols_wrapper(errs, meta) ==
    Wrappers(meta, 1, [wrappers |-> <<>>, errs |-> errs])

--------------------------------------------------------------------------
(* wrapper.rs: expand_derive.  The result is                               *)
(*   [tag |-> "tokens"]  Ok(tokens): the load clauses and the accessors,   *)
(*   [tag |-> "error"]   Err(the recorded diagnostics, combined),          *)
(*   [tag |-> "panic"]   the macro panicked.                               *)
(* meta is the parsed metadata the tokens were generated from and recorded *)
(* the diagnostics the Ctxt held when expand_derive returned.              *)

NoMeta == [some |-> FALSE, attrs |-> MetadataDefault, fields |-> <<>>, errs |-> <<>>]

DeriveResult(tag, errors, clauses, wrappers, meta, recorded) ==
    [tag |-> tag, errors |-> errors, clauses |-> clauses, wrappers |-> wrappers,
     meta |-> meta, recorded |-> recorded]

\* lines 16-28: the tokens are returned only when ctxt.check() is Ok
\* variant: the tokens are returned without ctxt.check()
expand_derive_result_unchecked(metadata, load, wrap) ==
    IF \E i \in 1..Len(load.clauses) : load.clauses[i].expr.op = "panic"
    THEN DeriveResult("panic", <<>>, <<>>, <<>>, metadata, metadata.errs)
    ELSE DeriveResult("tokens", <<>>, load.clauses, wrap.wrappers, metadata, wrap.errs)

expand_derive_result(metadata, load, wrap) ==
    IF \E i \in 1..Len(load.clauses) : load.clauses[i].expr.op = "panic"
    THEN DeriveResult("panic", <<>>, <<>>, <<>>, metadata, metadata.errs)
    ELSE IF ~Ctxt_check(wrap.errs).ok
    THEN DeriveResult("error", Ctxt_check(wrap.errs).errors, <<>>, <<>>, metadata,
                      wrap.errs)
    ELSE DeriveResult("tokens", <<>>, load.clauses, wrap.wrappers, metadata, wrap.errs)

\* lines 14-15: the load clauses, then the accessors, on one Ctxt
expand_derive_generate(metadata, load) ==
    expand_derive_result(metadata, load, generate_symbols_wrapper(load.errs, metadata))

\* lines 9-11: no metadata, no tokens
expand_derive_metadata(metadata) ==
    IF ~metadata.some
    THEN DeriveResult("error", Ctxt_check(metadata.errs).errors, <<>>, <<>>, metadata,
                      metadata.errs)
    ELSE expand_derive_generate(metadata,
                                generate_symbols_load_clause(metadata.errs, metadata))

expand_derive(input) ==
    expand_derive_metadata(ast_Metadata_from_ast(Ctxt_new, input))

--------------------------------------------------------------------------
(* raw/library.rs: symbol lookup.  The library is the pair of symbol       *)
(* tables xDL searches: .dynsym (xdl_sym) and .symtab (xdl_dsym).  An      *)
(* address is the table and name it was found under; NULL is the null      *)
(* pointer.                                                                *)

NULL == [table |-> "null", name |-> <<>>]

xdl_sym(lib, name) ==
    IF name \in lib.dynsym THEN [table |-> "dynsym", name |-> name] ELSE NULL

xdl_dsym(lib, name) ==
    IF name \in lib.symtab THEN [table |-> "symtab", name |-> name] ELSE NULL

NoError == [variant |-> "none", payload |-> <<>>]
SymbolNotFound(name) == [variant |-> "SymbolNotFound", payload |-> name]
Ok(v) == [ok |-> TRUE, val |-> v, err |-> NoError]
Err(e) == [ok |-> FALSE, val |-> NULL, err |-> e]

\* Library::symbol: [res, call], the result and the C call it made
\* variant: the address is returned without the null check
Library_symbol_unchecked(lib, name) ==
    [res |-> Ok(xdl_sym(lib, name)), call |-> [fn |-> "xdl_sym", name |-> name]]

Library_symbol(lib, name) ==
    LET symbol == xdl_sym(lib, name) IN
    [res |-> IF symbol # NULL THEN Ok(symbol) ELSE Err(SymbolNotFound(name)),
     call |-> [fn |-> "xdl_sym", name |-> name]]

Library_debug_symbol(lib, name) ==
    LET symbol == xdl_dsym(lib, name) IN
    [res |-> IF symbol # NULL THEN Ok(symbol) ELSE Err(SymbolNotFound(name)),
     call |-> [fn |-> "xdl_dsym", name |-> name]]

--------------------------------------------------------------------------
(* The generated load_from: the meaning of the tokens expand_derive        *)
(* returned.  Evaluation threads the lookups issued and the log events     *)
(* emitted: [res, lookups, logs].                                          *)

TraceEvent(symbol, addr) == [level |-> "trace", symbol |-> symbol, addr |-> addr]
WarnEvent(err) == [level |-> "warn", symbol |-> err.payload, addr |-> NULL]

\* lib.symbol(name, None) [.inspect(trace).inspect_err(warn)]
\* variant: the failed lookups are not logged
eval_call_silent_failures(e, lib, st) ==
    LET r == IF e.ident = "debug_symbol" THEN Library_debug_symbol(lib, e.symbol)
                                          ELSE Library_symbol(lib, e.symbol)
    IN  [res |-> r.res,
         lookups |-> Append(st.lookups, r.call),
         logs |-> IF e.logger /\ r.res.ok
                  THEN Append(st.logs, TraceEvent(e.symbol, r.res.val))
                  ELSE st.logs]

\* variant: logging a failed lookup consumes the error
eval_call_log_swallows_error(e, lib, st) ==
    LET r == IF e.ident = "debug_symbol" THEN Library_debug_symbol(lib, e.symbol)
                                          ELSE Library_symbol(lib, e.symbol)
    IN  [res |-> IF e.logger /\ ~r.res.ok THEN Ok(NULL) ELSE r.res,
         lookups |-> Append(st.lookups, r.call),
         logs |-> IF ~e.logger THEN st.logs
                  ELSE IF r.res.ok THEN Append(st.logs, TraceEvent(e.symbol, r.res.val))
                  ELSE Append(st.logs, WarnEvent(r.res.err))]

eval_call(e, lib, st) ==
    LET r == IF e.ident = "debug_symbol" THEN Library_debug_symbol(lib, e.symbol)
                                          ELSE Library_symbol(lib, e.symbol)
    IN  [res |-> r.res,
         lookups |-> Append(st.lookups, r.call),
         logs |-> IF ~e.logger THEN st.logs
                  ELSE IF r.res.ok THEN Append(st.logs, TraceEvent(e.symbol, r.res.val))
                  ELSE Append(st.logs, WarnEvent(r.res.err))]

\* acc.or_else(|_| expr): expr is evaluated only when acc is Err
RECURSIVE eval_expr(_, _, _)
eval_expr(e, lib, st) ==
    IF e.op = "call" THEN eval_call(e, lib, st)
    ELSE LET a == eval_expr(e.acc, lib, st) IN
         IF a.res.ok THEN a ELSE eval_expr(e.expr, lib, a)

\* Ok(Self { ident: expr?, ident: expr.ok(), ... }): the fields are
\* evaluated in order; expr? returns the Err at once
\* variant: every field is loaded with .ok()
RECURSIVE load_fields_lenient(_, _, _, _)
load_fields_lenient(clauses, i, lib, st) ==
    IF i > Len(clauses)
    THEN [res |-> [ok |-> TRUE, api |-> st.api, err |-> NoError],
          lookups |-> st.lookups, logs |-> st.logs]
    ELSE LET c == clauses[i]
             r == eval_expr(c.expr, lib, [lookups |-> st.lookups, logs |-> st.logs])
             value == [ident |-> c.ident, some |-> r.res.ok, addr |-> r.res.val]
         IN  load_fields_lenient(clauses, i + 1, lib,
                 [api |-> Append(st.api, value), lookups |-> r.lookups,
                  logs |-> r.logs])

\* variant: every field is loaded with ?
RECURSIVE load_fields_strict(_, _, _, _)
load_fields_strict(clauses, i, lib, st) ==
    IF i > Len(clauses)
    THEN [res |-> [ok |-> TRUE, api |-> st.api, err |-> NoError],
          lookups |-> st.lookups, logs |-> st.logs]
    ELSE LET c == clauses[i]
             r == eval_expr(c.expr, lib, [lookups |-> st.lookups, logs |-> st.logs])
             value == [ident |-> c.ident, some |-> r.res.ok, addr |-> r.res.val]
         IN  IF ~r.res.ok
             THEN [res |-> [ok |-> FALSE, api |-> <<>>, err |-> r.res.err],
                   lookups |-> r.lookups, logs |-> r.logs]
             ELSE load_fields_strict(clauses, i + 1, lib,
                      [api |-> Append(st.api, value), lookups |-> r.lookups,
                       logs |-> r.logs])

RECURSIVE load_fields(_, _, _, _)
load_fields(clauses, i, lib, st) ==
    IF i > Len(clauses)
    THEN [res |-> [ok |-> TRUE, api |-> st.api, err |-> NoError],
          lookups |-> st.lookups, logs |-> st.logs]
    ELSE LET c == clauses[i]
             r == eval_expr(c.expr, lib, [lookups |-> st.lookups, logs |-> st.logs])
             value == [ident |-> c.ident, some |-> r.res.ok, addr |-> r.res.val]
         IN  IF ~c.optional /\ ~r.res.ok
             THEN [res |-> [ok |-> FALSE, api |-> <<>>, err |-> r.res.err],
                   lookups |-> r.lookups, logs |-> r.logs]
             ELSE load_fields(clauses, i + 1, lib,
                      [api |-> Append(st.api, value), lookups |-> r.lookups,
                       logs |-> r.logs])

load_from(tokens, lib, st) ==
    load_fields(tokens.clauses, 1, lib,
                [api |-> <<>>, lookups |-> st.lookups, logs |-> st.logs])

\* wrapper/container.rs: Container::from
Container_from(tokens, lib, st) == load_from(tokens, lib, st)

\* the generated accessors, called on a loaded api
call_accessor(w, api) ==
    LET f == api[w.field] IN
    CASE w.kind = "has" -> [accessor |-> w.name, kind |-> w.kind, some |-> f.some,
                            addr |-> NULL]
      [] w.kind \in {"opt_call", "opt_ref", "opt_ref_mut"} ->
            [accessor |-> w.name, kind |-> w.kind, some |-> f.some, addr |-> f.addr]
      [] OTHER -> [accessor |-> w.name, kind |-> w.kind, some |-> TRUE, addr |-> f.addr]

--------------------------------------------------------------------------
(* raw/api.rs, raw/library.rs, symbol/library.rs, wrapper/container.rs:    *)
(* the life of a library.  A handle is a number, NullHandle the null       *)
(* pointer; the loader keeps, per handle it gave out, the library's name,  *)
(* whether xdl_open loaded it with dlopen, and whether it is still open.   *)
(* The C calls an operation makes are returned as its calls.               *)

NullHandle == 0
XDL_DEFAULT == 0
XDL_TRY_FORCE_LOAD == 1
XDL_ALWAYS_FORCE_LOAD == 2

\* the handle of the linker behind the xDL handle h (what dlopen returned)
LinkerHandle(h) == 0 - h

FfiCall(fn, handle, name, flags, result) ==
    [fn |-> fn, handle |-> handle, name |-> name, flags |-> flags, ret |-> result]

\* the grave accent the messages quote a name with, written ' here
Quote == "'"
OpeningLibraryError(msg) == [variant |-> "OpeningLibraryError", payload |-> msg]

\* the libraries installed on the device: a exports f, b exports nothing;
\* no other name is found
Installed == { <<"a">>, <<"b">> }
ExportsOf(name) ==
    [dynsym |-> IF name = <<"a">> THEN { <<"f">> } ELSE {}, symtab |-> {}]

\* xdl_open: what the loader may answer.  It finds an installed library,
\* and has loaded it with dlopen or not: never under XDL_DEFAULT, always
\* under XDL_ALWAYS_FORCE_LOAD
xdl_open_answers(name, flags) ==
    IF name \notin Installed THEN { [found |-> FALSE, linker |-> FALSE] }
    ELSE { [found |-> TRUE, linker |-> l] :
               l \in CASE flags = XDL_DEFAULT -> {FALSE}
                       [] flags = XDL_TRY_FORCE_LOAD -> {FALSE, TRUE}
                       [] OTHER -> {TRUE} }

\* xdl_open with the loader's answer: the handle returned and the loader's
\* handles afterwards
xdl_open(hs, name, answer) ==
    IF answer.found
    THEN [ret |-> Len(hs) + 1,
          handles |-> Append(hs, [name |-> name, linker |-> answer.linker,
                                  state |-> "open"])]
    ELSE [ret |-> NullHandle, handles |-> hs]

\* xdl_close: returns the linker's handle when xdl_open used dlopen, else null
xdl_close(hs, h) ==
    [ret |-> IF hs[h].linker THEN LinkerHandle(h) ELSE NullHandle,
     handles |-> [hs EXCEPT ![h].state = "closed"]]

\* raw Library::new
Library_new(handle) ==
    IF handle # NullHandle THEN Ok([handle |-> handle])
    ELSE Err(OpeningLibraryError(<<"Cannot create Library from null pointer.">>))

\* variant: the loader is called whatever the name
Library_open_with_flags_unguarded(hs, name, flags, answer) ==
    LET o == xdl_open(hs, name, answer)
        r == Library_new(o.ret)
    IN  [res |-> IF r.ok THEN r
                 ELSE Err(OpeningLibraryError(<<Quote>> \o name \o <<Quote>>)),
         handles |-> o.handles,
         calls |-> << FfiCall("xdl_open", NullHandle, name, flags, o.ret) >>]

\* raw Library::open_with_flags: [res, handles, calls]
Library_open_with_flags(hs, name, flags, answer) ==
    IF name # <<>>
    THEN LET o == xdl_open(hs, name, answer)
             r == Library_new(o.ret)
         IN  [res |-> IF r.ok THEN r
                      ELSE Err(OpeningLibraryError(<<Quote>> \o name \o <<Quote>>)),
              handles |-> o.handles,
              calls |-> << FfiCall("xdl_open", NullHandle, name, flags, o.ret) >>]
    ELSE [res |-> Err(OpeningLibraryError(<<"The library name must not be empty.">>)),
          handles |-> hs,
          calls |-> <<>>]

\* raw Library::open
Library_open(hs, name, answer) == Library_open_with_flags(hs, name, XDL_DEFAULT, answer)

\* variant: dlclose is called on whatever xdl_close returned
Library_drop_always_dlclose(hs, lib) ==
    LET c == xdl_close(hs, lib.handle) IN
    [handles |-> c.handles,
     calls |-> << FfiCall("xdl_close", lib.handle, <<>>, 0, c.ret),
                  FfiCall("dlclose", c.ret, <<>>, 0, 0) >>]

\* impl Drop for Library: [handles, calls]
Library_drop(hs, lib) ==
    LET c == xdl_close(hs, lib.handle) IN
    [handles |-> c.handles,
     calls |-> << FfiCall("xdl_close", lib.handle, <<>>, 0, c.ret) >> \o
               (IF c.ret # NullHandle
                THEN << FfiCall("dlclose", c.ret, <<>>, 0, 0) >> ELSE <<>>)]

\* the addresses of an api, each with the handle it was resolved from
ResolvedFrom(api, h) ==
    [i \in 1..Len(api) |->
        [ident |-> api[i].ident, some |-> api[i].some, addr |-> api[i].addr,
         origin |-> h]]

\* variant: the library of a failed load is leaked, never closed
Container_from_library_leaks(tokens, hs, lib, st) ==
    LET r == Container_from(tokens, ExportsOf(hs[lib.handle].name), st) IN
    IF r.res.ok
    THEN [res |-> Ok([live |-> TRUE, lib |-> lib,
                      api |-> ResolvedFrom(r.res.api, lib.handle)]),
          handles |-> hs, calls |-> <<>>, lookups |-> r.lookups, logs |-> r.logs]
    ELSE [res |-> Err(r.res.err),
          handles |-> hs, calls |-> <<>>,
          lookups |-> r.lookups, logs |-> r.logs]

\* Container::from(lib): T::load_from(&lib)?, then Ok(Self { lib, api });
\* on the error lib, owned by the call, is dropped as the call returns
Container_from_library(tokens, hs, lib, st) ==
    LET r == Container_from(tokens, ExportsOf(hs[lib.handle].name), st) IN
    IF r.res.ok
    THEN [res |-> Ok([live |-> TRUE, lib |-> lib,
                      api |-> ResolvedFrom(r.res.api, lib.handle)]),
          handles |-> hs, calls |-> <<>>, lookups |-> r.lookups, logs |-> r.logs]
    ELSE LET d == Library_drop(hs, lib) IN
         [res |-> Err(r.res.err),
          handles |-> d.handles, calls |-> d.calls,
          lookups |-> r.lookups, logs |-> r.logs]

\* dropping a Container drops its lib, then its api
Container_drop(hs, c) == Library_drop(hs, c.lib)

--------------------------------------------------------------------------
(* The inputs: schemas (DeriveInput) and libraries.                        *)

\* sequences over S of exactly k elements
Tuples(S, k) == [1..k -> S]

Field(ident, attrs, ty) == [ident |-> ident, attrs |-> attrs, ty |-> ty]
DeriveInput(data, attrs, fields) == [data |-> data, attrs |-> attrs, fields |-> fields]
Lib(dynsym, symtab) == [dynsym |-> dynsym, symtab |-> symtab]

\* one #[native(implicit(rename = "<name>"))] attribute
RenameAttr(name) ==
    << << Meta("implicit", ArgList(<< Meta("rename", ArgEq(LitStr(name, <<>>))) >>)) >> >>

RuleNames == {RENAME_RULES[i].name : i \in 1..Len(RENAME_RULES)}

\* (a) case conversion: one field, every identifier over NameChars of up to
\* MaxNameLen characters, every rename rule at struct and at field level
NameChars == {"a", "B", "_"}
Identifiers ==
    UNION {Tuples(NameChars, k) : k \in 1..MaxNameLen} \ {<<"_">>}
RenameChoices == {<<>>} \cup {RenameAttr(n) : n \in RuleNames}
SnakeExports == Lib({n \in Identifiers : to_ascii_lowercase(n) = n}, {})

\* (b) attribute parsing: one field a_b, and every way of writing up to
\* MaxLeaves options (well-formed or malformed) on the struct and the field
ImplicitLeaves ==
    { Meta("rename", ArgEq(LitStr(<<"PascalCase">>, <<>>))),
      Meta("rename", ArgEq(LitStr(<<"UPPERCASE">>, <<>>))),
      Meta("rename", ArgEq(LitStr(<<"bogus">>, <<>>))),
      Meta("debug", ArgNone),
      Meta("debug", ArgEq(LitBool(FALSE))),
      Meta("debug", ArgEq(LitInt)),
      Meta("verbose", ArgNone) }
LoggerLeaves ==
    { Meta("logger", ArgNone), Meta("logger", ArgEq(LitBool(FALSE))),
      Meta("logger", ArgEq(LitInt)) }
UnknownLeaves == { Meta("unknown", ArgNone) }
PrefixLeaves ==
    { Meta("symbol", ArgList(<< Meta("prefix", ArgEq(LitStr(<<" ", "p">>, <<>>))) >>)),
      Meta("symbol", ArgList(<< Meta("suffix", ArgEq(LitStr(<<"s", " ">>, <<>>))) >>)) }
AffixPairs ==
    { Meta("symbol", ArgList(<< Meta("prefix", ArgEq(LitStr(<<" ", "p">>, <<>>))),
                                Meta("suffix", ArgEq(LitStr(<<"s", " ">>, <<>>))) >>)) }
SymbolElements ==
    { LitStr(<<"x">>, <<>>), LitStr(<<"y">>, <<"d">>), LitStr(<<"y">>, <<"debug">>),
      LitCStr(<<"z">>, <<>>), LitStr(<<"w">>, <<"q">>), LitInt }
SymbolLeaves ==
    { Meta("symbol", ArgEq(LitStr(<<"x">>, <<>>))),
      Meta("symbol", ArgEq(LitCStr(<<"x">>, <<>>))),
      Meta("symbol", ArgEq(ExprArray(<<>>))) }
    \cup { Meta("symbol", ArgEq(ExprArray(<<e>>))) : e \in SymbolElements }

\* the meta items of exactly k leaves a struct (or a field) may carry
ItemsWith(target, k) ==
    { Meta("implicit", ArgList(l)) : l \in Tuples(ImplicitLeaves, k) }
    \cup (IF k = 1 THEN LoggerLeaves \cup UnknownLeaves ELSE {})
    \cup (IF k = 1 /\ target = "struct" THEN PrefixLeaves ELSE {})
    \cup (IF k = 2 /\ target = "struct" THEN AffixPairs ELSE {})
    \cup (IF k = 1 /\ target = "field" THEN SymbolLeaves ELSE {})
    \cup (IF k > 1 /\ target = "field"
          THEN { Meta("symbol", ArgEq(ExprArray(l))) : l \in Tuples(SymbolElements, k) }
          ELSE {})

\* the item sequences of exactly n leaves
RECURSIVE ItemSeqs(_, _)
ItemSeqs(target, n) ==
    IF n = 0 THEN {<<>>}
    ELSE UNION { { <<it>> \o rest : it \in ItemsWith(target, k),
                                    rest \in ItemSeqs(target, n - k) } : k \in 1..n }

\* the ways of writing an item sequence as consecutive #[native(...)] attributes
RECURSIVE Splits(_)
Splits(items) ==
    IF items = <<>> THEN {<<>>}
    ELSE UNION { { << SubSeq(items, 1, j) >> \o rest :
                       rest \in Splits(SubSeq(items, j + 1, Len(items))) } :
                 j \in 1..Len(items) }

AttrsWith(target, n) == UNION { Splits(items) : items \in ItemSeqs(target, n) }

AttrTypes ==
    {TyFn, TyVariadicFn, TyRef, TyRefMut, TyPtr, TyOptFn, TyOptPtr, TyI32, TyOptI32}
AttrExports == Lib({<<"a", "_", "b">>, <<"x">>}, {<<"y">>})

LeafSplits == {p \in (0..MaxLeaves) \X (0..MaxLeaves) : p[1] + p[2] <= MaxLeaves}

\* (c) resolution: up to MaxFields fields f, fg, fgg.. with up to MaxCands
\* explicit candidates among them, against every library over x, f and y
LoadElements == { LitStr(<<"x">>, <<>>), LitStr(<<"y">>, <<"d">>) }
LoadTypes == {TyFn, TyOptFn}
LeadTypes == {TyFn, TyRefMut, TyPtr, TyOptFn, TyOptRef}
FieldIdent(i) == [j \in 1..i |-> IF j = 1 THEN "f" ELSE "g"]
SymbolAttr(l) ==
    IF l = <<>> THEN <<>> ELSE << << Meta("symbol", ArgEq(ExprArray(l))) >> >>

\* the sequences of n (candidates, type) pairs with at most budget
\* candidates, the first field's type drawn from types
RECURSIVE FieldShapes(_, _, _)
FieldShapes(n, budget, types) ==
    IF n = 0 THEN {<<>>}
    ELSE UNION { { << [syms |-> l, ty |-> t] >> \o rest :
                       l \in Tuples(LoadElements, k), t \in types,
                       rest \in FieldShapes(n - 1, budget - k, LoadTypes) } :
                 k \in 0..budget }

LoadFields(shape) ==
    [i \in 1..Len(shape) |-> Field(FieldIdent(i), SymbolAttr(shape[i].syms), shape[i].ty)]

--------------------------------------------------------------------------
(* The state machine: the derive expands the schema, Container::from loads *)
(* the generated api from the library, the accessors are called.           *)

NoDerive == DeriveResult("none", <<>>, <<>>, <<>>, NoMeta, <<>>)
NotLoaded == [ok |-> FALSE, api |-> <<>>, err |-> NoError]
NoRet == [accessor |-> <<>>, kind |-> "none", some |-> FALSE, addr |-> NULL]

Outcome(op, subject, res, calls) ==
    [op |-> op, subject |-> subject, res |-> res, calls |-> calls]
NoOutcome == Outcome("none", <<>>, Ok(NULL), <<>>)

Start(input, lib) ==
    /\ ast = input
    /\ exports = lib
    /\ phase = "source"
    /\ derived = NoDerive
    /\ loaded = NotLoaded
    /\ lookups = <<>>
    /\ logs = <<>>
    /\ ret = NoRet
    /\ handles = <<>>
    /\ owned = {}
    /\ containers = <<>>
    /\ ffi = <<>>
    /\ outcome = NoOutcome

InitCase ==
    \E sa \in RenameChoices, fa \in RenameChoices, id \in Identifiers,
       ty \in {TyFn, TyOptFn}, lib \in {SnakeExports, Lib({}, {})} :
        Start(DeriveInput("named_struct", sa, << Field(id, fa, ty) >>), lib)

InitAttr ==
    \/ \E p \in LeafSplits :
         \E sa \in AttrsWith("struct", p[1]), fa \in AttrsWith("field", p[2]),
            ty \in AttrTypes :
             Start(DeriveInput("named_struct", sa, << Field(<<"a", "_", "b">>, fa, ty) >>),
                   AttrExports)
    \/ \E n \in 0..MaxLeaves :
         \E sa \in AttrsWith("struct", n) :
             Start(DeriveInput("enum", sa, <<>>), AttrExports)

InitLoad ==
    \E sa \in {<<>>, << << Meta("logger", ArgNone) >> >>}, n \in 1..MaxFields,
       dyn \in SUBSET {<<"x">>, <<"f">>}, sym \in SUBSET {<<"y">>} :
        \E shape \in FieldShapes(n, MaxCands, LeadTypes) :
            Start(DeriveInput("named_struct", sa, LoadFields(shape)), Lib(dyn, sym))

ExpandDerive ==
    /\ phase = "source"
    /\ derived' = expand_derive(ast)
    /\ phase' = "expanded"
    /\ UNCHANGED <<ast, exports, loaded, lookups, logs, ret>>
    /\ UNCHANGED life_vars

ContainerFrom ==
    /\ phase = "expanded"
    /\ derived.tag = "tokens"
    /\ LET r == Container_from(derived, exports, [lookups |-> lookups, logs |-> logs])
       IN  /\ loaded' = r.res
           /\ lookups' = r.lookups
           /\ logs' = r.logs
    /\ phase' = "loaded"
    /\ UNCHANGED <<ast, exports, derived, ret>>
    /\ UNCHANGED life_vars

CallAccessor ==
    /\ phase = "loaded"
    /\ loaded.ok
    /\ \E k \in 1..Len(derived.wrappers) :
           ret' = call_accessor(derived.wrappers[k], loaded.api)
    /\ UNCHANGED <<ast, exports, phase, derived, loaded, lookups, logs>>
    /\ UNCHANGED life_vars

Next == ExpandDerive \/ ContainerFrom \/ CallAccessor

SpecCase == InitCase /\ [][Next]_vars
SpecAttr == InitAttr /\ [][Next]_vars
SpecLoad == InitLoad /\ [][Next]_vars

--------------------------------------------------------------------------
(* The life of libraries and containers: the caller opens libraries, makes *)
(* a Container<Api> of them or drops them, calls the api's accessors       *)
(* through Deref, writes the api through DerefMut, asks for the library,   *)
(* and drops the containers.                                               *)

\* struct Api { f: fn() }
LifeSchema == DeriveInput("named_struct", <<>>, << Field(<<"f">>, <<>>, TyFn) >>)
LifeNames == { <<>>, <<"a">>, <<"b">>, <<"z">> }
LifeFlags == { XDL_DEFAULT, XDL_TRY_FORCE_LOAD }

InitLife ==
    /\ ast = LifeSchema
    /\ exports = Lib({}, {})
    /\ phase = "expanded"
    /\ derived = expand_derive(LifeSchema)
    /\ loaded = NotLoaded
    /\ lookups = <<>>
    /\ logs = <<>>
    /\ ret = NoRet
    /\ handles = <<>>
    /\ owned = {}
    /\ containers = <<>>
    /\ ffi = <<>>
    /\ outcome = NoOutcome

OpenCalls == Cardinality({i \in 1..Len(ffi) : ffi[i].fn = "xdl_open"})

Opened(op, name, flags, r) ==
    /\ handles' = r.handles
    /\ owned' = IF r.res.ok THEN owned \cup {r.res.val.handle} ELSE owned
    /\ ffi' = ffi \o r.calls
    /\ outcome' = Outcome(op, [name |-> name, flags |-> flags], r.res, r.calls)
    /\ UNCHANGED containers
    /\ UNCHANGED derive_vars

\* Library::open(name)
LibraryOpen ==
    \E name \in LifeNames :
        /\ name = <<>> \/ OpenCalls < MaxOpens
        /\ \E answer \in xdl_open_answers(name, XDL_DEFAULT) :
               Opened("open", name, XDL_DEFAULT, Library_open(handles, name, answer))

\* Library::open_with_flags(name, flags)
LibraryOpenWithFlags ==
    \E name \in LifeNames, flags \in LifeFlags :
        /\ name = <<>> \/ OpenCalls < MaxOpens
        /\ \E answer \in xdl_open_answers(name, flags) :
               Opened("open_with_flags", name, flags,
                      Library_open_with_flags(handles, name, flags, answer))

\* drop(lib) of a Library the caller holds
LibraryDrop ==
    \E h \in owned :
        LET d == Library_drop(handles, [handle |-> h]) IN
        /\ handles' = d.handles
        /\ owned' = owned \ {h}
        /\ ffi' = ffi \o d.calls
        /\ outcome' = Outcome("drop_library", [handle |-> h], Ok(NULL), d.calls)
        /\ UNCHANGED containers
        /\ UNCHANGED derive_vars

\* Container::<Api>::from(lib) of a Library the caller holds
ContainerFromLibrary ==
    \E h \in owned :
        LET r == Container_from_library(derived, handles, [handle |-> h],
                                        [lookups |-> lookups, logs |-> logs])
        IN  /\ handles' = r.handles
            /\ owned' = owned \ {h}
            /\ containers' = IF r.res.ok THEN Append(containers, r.res.val)
                             ELSE containers
            /\ ffi' = ffi \o r.calls
            /\ lookups' = r.lookups
            /\ logs' = r.logs
            /\ outcome' = Outcome("from", [handle |-> h], r.res, r.calls)
            /\ UNCHANGED <<ast, exports, phase, derived, loaded, ret>>

Live == {c \in 1..Len(containers) : containers[c].live}

\* container.f(): Deref to the api, then the generated accessor
ContainerDeref ==
    \E c \in Live, k \in 1..Len(derived.wrappers) :
        LET w == derived.wrappers[k]
            from == containers[c].api[w.field].origin
        IN  /\ ret' = call_accessor(w, containers[c].api)
            /\ outcome' = Outcome("accessor",
                                  [container |-> c, origin |-> from,
                                   closed |-> handles[from].state = "closed"],
                                  Ok(NULL), <<>>)
            /\ UNCHANGED <<ast, exports, phase, derived, loaded, lookups, logs>>
            /\ UNCHANGED <<handles, owned, containers, ffi>>

\* DerefMut hands out &mut Api: the caller writes through it, here
\* std::mem::swap(&mut *c, &mut *d) of two containers
ContainerDerefMut ==
    \E c \in Live, d \in Live :
        /\ c < d
        /\ containers' = [containers EXCEPT ![c].api = containers[d].api,
                                            ![d].api = containers[c].api]
        /\ outcome' = Outcome("deref_mut", [container |-> c, other |-> d],
                              Ok(NULL), <<>>)
        /\ UNCHANGED <<handles, owned, ffi>>
        /\ UNCHANGED derive_vars

\* container.library()
ContainerLibrary ==
    \E c \in Live :
        /\ outcome' = Outcome("library", [container |-> c],
                              Ok(containers[c].lib), <<>>)
        /\ UNCHANGED <<handles, owned, containers, ffi>>
        /\ UNCHANGED derive_vars

\* drop(container)
ContainerDrop ==
    \E c \in Live :
        LET d == Container_drop(handles, containers[c]) IN
        /\ handles' = d.handles
        /\ containers' = [containers EXCEPT ![c].live = FALSE]
        /\ ffi' = ffi \o d.calls
        /\ outcome' = Outcome("drop", [container |-> c], Ok(NULL), d.calls)
        /\ UNCHANGED owned
        /\ UNCHANGED derive_vars

NextLife ==
    \/ LibraryOpen
    \/ LibraryOpenWithFlags
    \/ LibraryDrop
    \/ ContainerFromLibrary
    \/ ContainerDeref
    \/ ContainerDerefMut
    \/ ContainerLibrary
    \/ ContainerDrop

SpecLife == InitLife /\ [][NextLife]_vars

--------------------------------------------------------------------------
(* Properties.  What the claims speak of, read off the state: the calls of *)
(* a load expression, the resolution plan of a field as the calls it       *)
(* stands for, and what the library answers to each.                       *)

\* the lookups of a load expression, in the order the expression tries them
RECURSIVE expr_calls(_)
expr_calls(e) ==
    IF e.op = "call" THEN << e >> ELSE expr_calls(e.acc) \o expr_calls(e.expr)

PlanCall(c) ==
    [fn |-> IF c.debug THEN "xdl_dsym" ELSE "xdl_sym", name |-> c.symbol]

\* the plan c1..cn of field i of the parsed schema
FieldPlan(i) ==
    LET plan == resolution_plan(derived.meta.fields[i], derived.meta)
    IN  [k \in 1..Len(plan) |-> PlanCall(plan[k])]

Exported(call) ==
    IF call.fn = "xdl_dsym" THEN call.name \in exports.symtab
                            ELSE call.name \in exports.dynsym

AddressOf(call) ==
    [table |-> IF call.fn = "xdl_dsym" THEN "symtab" ELSE "dynsym", name |-> call.name]

\* the index of the first candidate the library exports, 0 when none is
FirstSuccess(calls) ==
    IF \E k \in 1..Len(calls) : Exported(calls[k])
    THEN CHOOSE k \in 1..Len(calls) :
             /\ Exported(calls[k])
             /\ \A m \in 1..(k - 1) : ~Exported(calls[m])
    ELSE 0

\* c1..ck up to the first success, all of c1..cn when none succeeds
Attempted(calls) ==
    IF FirstSuccess(calls) = 0 THEN calls ELSE SubSeq(calls, 1, FirstSuccess(calls))

\* the lookups of a whole load: each field's in turn, ending with the first
\* required field that no candidate resolves
RECURSIVE ExpectedLookups(_)
ExpectedLookups(i) ==
    IF i > Len(derived.clauses) THEN <<>>
    ELSE LET calls == FieldPlan(derived.clauses[i].field)
         IN  Attempted(calls) \o
             (IF FirstSuccess(calls) = 0 /\ ~derived.clauses[i].optional
              THEN <<>> ELSE ExpectedLookups(i + 1))

\* the required fields none of whose candidates the library exports
Exhausted ==
    {i \in 1..Len(derived.clauses) :
        /\ ~derived.clauses[i].optional
        /\ FirstSuccess(FieldPlan(derived.clauses[i].field)) = 0}

FirstExhausted == CHOOSE i \in Exhausted : \A j \in Exhausted : i <= j

\* C1: load_from looks the candidates of each field up strictly in plan
\* order, stops a field at its first successful lookup, never looks a later
\* candidate up, and gives the field the address that lookup returned.
C1_PlanOrderFirstSuccessWins ==
    phase = "loaded" =>
        /\ lookups = ExpectedLookups(1)
        /\ loaded.ok =>
               \A i \in 1..Len(derived.clauses) :
                   LET calls == FieldPlan(derived.clauses[i].field) IN
                   FirstSuccess(calls) # 0 =>
                       /\ loaded.api[i].some
                       /\ loaded.api[i].addr = AddressOf(calls[FirstSuccess(calls)])

\* a field of three candidates whose first fails and whose second succeeds
C1_Witness ==
    /\ phase = "loaded"
    /\ loaded.ok
    /\ \E i \in 1..Len(derived.clauses) :
           LET calls == FieldPlan(derived.clauses[i].field) IN
           /\ Len(calls) >= 3
           /\ FirstSuccess(calls) = 2
           /\ calls[3] # calls[1]
           /\ Exported(calls[3])

\* the meta items of a list of #[native(...)] attributes, in written order
RECURSIVE Flatten(_)
Flatten(attrs) ==
    IF attrs = <<>> THEN <<>> ELSE Head(attrs) \o Flatten(Tail(attrs))

\* the field writes a string or c-string literal in some symbol attribute
HasLiteralSymbol(field) ==
    \E m \in Range(Flatten(field.attrs)) :
        /\ m.path = "symbol"
        /\ m.arg.t = "eq"
        /\ \/ m.arg.expr.k \in {"str", "cstr"}
           \/ \E e \in Range(m.arg.expr.elems) : e.k \in {"str", "cstr"}

\* the load clauses generate_symbols_load_clause builds for the parsed
\* schema, whether or not expand_derive goes on to return them
BuiltClauses == generate_symbols_load_clause(derived.meta.errs, derived.meta).clauses

\* C2: whatever the symbol attribute of a field holds (absent, an empty
\* array, an array of any content), the load expression built for it has at
\* least one candidate; a field that writes no symbol literal has exactly
\* one, and its name is derived from the field's name.
C2_PlanNeverEmpty ==
    (phase # "source" /\ derived.meta.some) =>
        \A i \in 1..Len(BuiltClauses) :
            LET c == BuiltClauses[i]
                field == ast.fields[c.field]
            IN  /\ c.expr.op # "panic"
                /\ Len(expr_calls(c.expr)) >= 1
                /\ Len(expr_calls(c.expr)) = Len(FieldPlan(c.field))
                /\ ~HasLiteralSymbol(field) =>
                       /\ Len(expr_calls(c.expr)) = 1
                       /\ \E r \in RenameRules :
                              Contains(expr_calls(c.expr)[1].symbol,
                                       apply_to_field(r, field.ident))

\* a field written with symbol = [] is loaded through its one implicit
\* candidate
C2_Witness ==
    /\ phase = "loaded"
    /\ loaded.ok
    /\ Len(ast.fields) = 1
    /\ \E m \in Range(Flatten(ast.fields[1].attrs)) :
           m.path = "symbol" /\ m.arg.t = "eq" /\ m.arg.expr = ExprArray(<<>>)
    /\ Len(lookups) = 1
    /\ Contains(lookups[1].name, ast.fields[1].ident)

\* C3 (as the code has it): when no candidate of a required field resolves,
\* load_from fails with SymbolNotFound carrying the lookup name of the last
\* candidate tried for the first such field, and nothing else: the error
\* does not carry the field's name.  Without such a field it succeeds.
C3_ExhaustionFailsWithLastCandidate ==
    phase = "loaded" =>
        /\ loaded.ok <=> Exhausted = {}
        /\ Exhausted # {} =>
               LET calls == FieldPlan(derived.clauses[FirstExhausted].field)
               IN  /\ loaded.err = SymbolNotFound(calls[Len(calls)].name)
                   /\ loaded.api = <<>>
                   /\ lookups[Len(lookups)] = calls[Len(calls)]

\* a required field with two candidates, both missing from the library
C3_Witness ==
    /\ phase = "loaded"
    /\ ~loaded.ok
    /\ Exhausted # {}
    /\ Len(FieldPlan(derived.clauses[FirstExhausted].field)) >= 2
    /\ loaded.err.variant = "SymbolNotFound"

\* C3 (as the specification words it): the error of an exhausted required
\* field names the field and its last-tried candidate.
C3_ErrorNamesFieldAndCandidate ==
    (phase = "loaded" /\ Exhausted # {}) =>
        LET field == derived.meta.fields[derived.clauses[FirstExhausted].field]
            calls == FieldPlan(derived.clauses[FirstExhausted].field)
        IN  /\ ~loaded.ok
            /\ Contains(loaded.err.payload, field.ident)
            /\ Contains(loaded.err.payload, calls[Len(calls)].name)

\* some candidate of the field of clause i resolves
Resolves(i) == FirstSuccess(FieldPlan(derived.clauses[i].field)) # 0

\* C4: an Option field none of whose candidates resolves does not fail the
\* load: load_from succeeds whenever the required fields resolve, the field
\* is None, and has_<field>() is true exactly when a candidate resolved.
C4_OptionalExhaustionIsAbsent ==
    phase = "loaded" =>
        /\ (\A i \in 1..Len(derived.clauses) :
                ~derived.clauses[i].optional => Resolves(i)) => loaded.ok
        /\ loaded.ok =>
               \A i \in 1..Len(derived.clauses) :
                   derived.clauses[i].optional =>
                       /\ loaded.api[i].some <=> Resolves(i)
                       /\ ~Resolves(i) => loaded.api[i].addr = NULL
        /\ \A k \in 1..Len(derived.wrappers) :
               LET w == derived.wrappers[k] IN
               (ret.kind = "has" /\ ret.accessor = w.name) =>
                   /\ w.name = has_prefix \o derived.clauses[w.field].ident
                   /\ ret.some <=> Resolves(w.field)

\* has_<field>() answered false for an Option field with two candidates,
\* both missing
C4_Witness ==
    /\ phase = "loaded"
    /\ loaded.ok
    /\ ret.kind = "has"
    /\ ~ret.some
    /\ \E i \in 1..Len(derived.clauses) :
           /\ derived.clauses[i].optional
           /\ ret.accessor = has_prefix \o derived.clauses[i].ident
           /\ Len(FieldPlan(derived.clauses[i].field)) >= 2
           /\ ~Resolves(i)

\* C5: load_from and Container::from return either an api every required
\* field of which holds a resolved, non-null address, or an error and no
\* api; the accessor of a required field never hands out a null address.
C5_NoUnresolvedRequiredField ==
    phase = "loaded" =>
        /\ loaded.ok =>
               /\ loaded.err = NoError
               /\ Len(loaded.api) = Len(derived.clauses)
               /\ \A i \in 1..Len(derived.clauses) :
                      ~derived.clauses[i].optional =>
                          /\ loaded.api[i].some
                          /\ loaded.api[i].addr # NULL
                          /\ loaded.api[i].addr.name \in
                                 exports.dynsym \cup exports.symtab
        /\ ~loaded.ok => (loaded.api = <<>> /\ loaded.err.variant = "SymbolNotFound")
        /\ ret.kind \in {"call", "ref", "ref_mut"} => ret.addr # NULL

\* a load that succeeds with a required field resolved through its second
\* candidate, in a library that lacks the first
C5_Witness ==
    /\ phase = "loaded"
    /\ loaded.ok
    /\ ret.kind = "call"
    /\ \E i \in 1..Len(derived.clauses) :
           /\ ~derived.clauses[i].optional
           /\ FirstSuccess(FieldPlan(derived.clauses[i].field)) = 2

\* every meta item written at the top level of a #[native(...)] attribute
\* of the struct or of a field, and every item written inside implicit(...)
SchemaItems ==
    Range(Flatten(ast.attrs)) \cup
    UNION {Range(Flatten(ast.fields[i].attrs)) : i \in 1..Len(ast.fields)}

SchemaImplicitItems ==
    UNION {Range(m.arg.items) : m \in {n \in SchemaItems : n.path = "implicit"}}

\* the malformed items of the two kinds the specification gives as its
\* example: unknown keys and rename-rule names that are no rule
UnknownKeys ==
    {m \in SchemaItems : m.path \notin {"implicit", "symbol", "logger"}} \cup
    {m \in SchemaImplicitItems : m.path \notin {"rename", "debug"}}

BadRenames ==
    {m \in SchemaImplicitItems :
        /\ m.path = "rename"
        /\ m.arg.t = "eq"
        /\ m.arg.expr.k = "str"
        /\ m.arg.expr.suffix = <<>>
        /\ ~from_str(m.arg.expr.value).ok}

\* C6: every malformed item of the schema is reported by expand_derive:
\* each unknown key and each invalid rename-rule name has its diagnostic
\* among the recorded ones, whether the items share an attribute or not.
C6_EveryMalformedItemReported ==
    phase # "source" =>
        /\ \A m \in UnknownKeys : unknown_attribute(m) \in Range(derived.recorded)
        /\ \A m \in BadRenames :
               \E d \in Range(derived.recorded) : d.arg = m.arg.expr.value

\* the schema writes something expand_derive has to reject
SchemaMalformed ==
    \/ ast.data # "named_struct"
    \/ UnknownKeys # {}
    \/ BadRenames # {}
    \/ \E i \in 1..Len(ast.fields) :
           ast.fields[i].ty.node \notin {"BareFn", "Reference", "Ptr"}
           /\ ~get_option_inner_type(ast.fields[i].ty).some

\* C7: expand_derive returns generated code only when no schema error was
\* recorded; with one recorded (from the struct attributes, the field
\* attributes or the field types) it returns the recorded errors and no code.
C7_CodeOnlyWithoutSchemaError ==
    phase # "source" =>
        /\ derived.tag \in {"tokens", "error"}
        /\ derived.tag = "tokens" <=> derived.recorded = <<>>
        /\ derived.tag = "error" =>
               /\ derived.errors = derived.recorded
               /\ derived.clauses = <<>>
               /\ derived.wrappers = <<>>
        /\ SchemaMalformed => derived.tag = "error"
        /\ phase = "loaded" => derived.recorded = <<>>

\* a struct with a supported field and one recorded error, from a field
\* attribute, and no code returned for the field
C7_Witness ==
    /\ phase = "expanded"
    /\ derived.tag = "error"
    /\ Len(derived.recorded) = 1
    /\ derived.meta.some
    /\ Len(BuiltClauses) = 1
    /\ ast.attrs = <<>>
    /\ derived.clauses = <<>>

\* the lookup an element of a symbol array stands for
DeclaredCall(lit) ==
    [fn |-> IF trim(lit.suffix) \in {<<"d">>, <<"debug">>} THEN "xdl_dsym" ELSE "xdl_sym",
     name |-> IF lit.k = "str" /\ derived.meta.attrs.symbol.prefix.some
              THEN trim(derived.meta.attrs.symbol.prefix.v) \o lit.value
              ELSE lit.value]

CallOf(e) ==
    [fn |-> IF e.ident = "debug_symbol" THEN "xdl_dsym" ELSE "xdl_sym", name |-> e.symbol]

\* C8: a field that declares a non-empty symbol list gets a plan of exactly
\* one entry per declared element, in the declared order, and no candidate
\* derived from the field's name.
C8_ExplicitListVerbatim ==
    (phase # "source" /\ derived.tag = "tokens") =>
        \A i \in 1..Len(derived.clauses) :
            LET items == Flatten(ast.fields[derived.clauses[i].field].attrs)
                elems == items[1].arg.expr.elems
                calls == expr_calls(derived.clauses[i].expr)
            IN  (/\ Len(items) = 1
                 /\ items[1].path = "symbol"
                 /\ items[1].arg.t = "eq"
                 /\ items[1].arg.expr.k = "array"
                 /\ elems # <<>>) =>
                    /\ Len(calls) = Len(elems)
                    /\ \A k \in 1..Len(elems) : CallOf(calls[k]) = DeclaredCall(elems[k])

\* a field declaring three elements, the third repeating the first, none of
\* them the field's own name, loaded through every one of them in order
C8_Witness ==
    /\ phase = "loaded"
    /\ \E i \in 1..Len(ast.fields) :
           LET items == Flatten(ast.fields[i].attrs) IN
           /\ Len(items) = 1
           /\ Len(items[1].arg.expr.elems) = 3
           /\ items[1].arg.expr.elems[1] = items[1].arg.expr.elems[3]
           /\ items[1].arg.expr.elems[1] # items[1].arg.expr.elems[2]
           /\ Len(expr_calls(derived.clauses[i].expr)) = 3
           /\ i = 1 /\ Len(lookups) >= 3

\* the rename rule a list of attributes writes (one implicit(rename = ..))
WrittenRule(attrs) ==
    IF attrs = <<>> THEN "None"
    ELSE from_str(attrs[1][1].arg.items[1].arg.expr.value).rule

\* C9: the implicit candidate is renamed by the field's rule when the field
\* sets one, else by the struct's, else not at all; RenameRule::or(a, b) is
\* a unless a is None, and then b.
C9_RenamePrecedence ==
    /\ \A a \in RenameRules, b \in RenameRules :
           or(a, b) = (IF a = "None" THEN b ELSE a)
    /\ (phase # "source" /\ derived.tag = "tokens") =>
           LET field_rule == WrittenRule(ast.fields[1].attrs)
               struct_rule == WrittenRule(ast.attrs)
               rule == IF field_rule # "None" THEN field_rule ELSE struct_rule
               calls == expr_calls(derived.clauses[1].expr)
           IN  /\ Len(calls) = 1
               /\ calls[1].symbol = apply_to_field(rule, ast.fields[1].ident)

\* field and struct set different rules that rename the field differently,
\* and the field's is the one looked up
C9_Witness ==
    /\ phase = "loaded"
    /\ WrittenRule(ast.fields[1].attrs) # "None"
    /\ WrittenRule(ast.attrs) # "None"
    /\ apply_to_field(WrittenRule(ast.fields[1].attrs), ast.fields[1].ident)
           # apply_to_field(WrittenRule(ast.attrs), ast.fields[1].ident)
    /\ lookups[1].name =
           apply_to_field(WrittenRule(ast.fields[1].attrs), ast.fields[1].ident)

\* the debug options written inside implicit(...) and the logger options
\* written in a list of attributes
DebugLeaves(attrs) ==
    {m \in UNION {Range(n.arg.items) :
                      n \in {x \in Range(Flatten(attrs)) : x.path = "implicit"}} :
        m.path = "debug"}

LoggerLeavesOf(attrs) == {m \in Range(Flatten(attrs)) : m.path = "logger"}

\* the value a boolean option is written with: bare, = true or = false
WrittenBool(m) == IF m.arg.t = "none" THEN TRUE ELSE m.arg.expr.value = <<"true">>

\* field value if written, else struct value if written, else false
EffectiveBool(field_leaves, struct_leaves) ==
    IF field_leaves # {} THEN WrittenBool(CHOOSE m \in field_leaves : TRUE)
    ELSE IF struct_leaves # {} THEN WrittenBool(CHOOSE m \in struct_leaves : TRUE)
    ELSE FALSE

\* each level writes at most one implicit(...) item and each option at most once
WrittenOnce(attrs) ==
    /\ Cardinality({k \in 1..Len(Flatten(attrs)) : Flatten(attrs)[k].path = "implicit"}) <= 1
    /\ Cardinality(DebugLeaves(attrs)) <= 1
    /\ Cardinality(LoggerLeavesOf(attrs)) <= 1

\* C10: debug (of the implicit candidate) and logger take the field's value
\* when the field writes one (a written false overriding the struct's true),
\* else the struct's, else false; an option written bare counts as true.
C10_BooleanPrecedence ==
    (/\ phase # "source"
     /\ derived.tag = "tokens"
     /\ WrittenOnce(ast.attrs)
     /\ \A i \in 1..Len(ast.fields) : WrittenOnce(ast.fields[i].attrs)) =>
        \A i \in 1..Len(derived.clauses) :
            LET field == ast.fields[derived.clauses[i].field]
                calls == expr_calls(derived.clauses[i].expr)
                debug == EffectiveBool(DebugLeaves(field.attrs), DebugLeaves(ast.attrs))
                logger == EffectiveBool(LoggerLeavesOf(field.attrs),
                                        LoggerLeavesOf(ast.attrs))
            IN  /\ \A k \in 1..Len(calls) : calls[k].logger = logger
                /\ ~HasLiteralSymbol(field) =>
                       (calls[1].ident = "debug_symbol") <=> debug

\* the struct writes debug bare, the field writes debug = false, and the
\* field is looked up in .dynsym
C10_Witness ==
    /\ phase = "loaded"
    /\ Meta("debug", ArgNone) \in DebugLeaves(ast.attrs)
    /\ Meta("debug", ArgEq(LitBool(FALSE))) \in DebugLeaves(ast.fields[1].attrs)
    /\ Len(lookups) = 1
    /\ lookups[1].fn = "xdl_sym"

\* the prefix or suffix the struct writes in its symbol(...) item, empty
\* when it writes none
StructSymbolItems == {m \in Range(Flatten(ast.attrs)) : m.path = "symbol"}

WrittenAffix(key) ==
    LET leaves == {m \in UNION {Range(n.arg.items) : n \in StructSymbolItems} :
                       m.path = key}
    IN  IF leaves = {} THEN <<>> ELSE (CHOOSE m \in leaves : TRUE).arg.expr.value

\* C11: a logical candidate (a string literal or the implicit one) is
\* looked up as trim(prefix) + name + trim(suffix) with the struct's prefix
\* and suffix, as its bare name when the struct configures none; a c"..."
\* candidate is looked up as its bytes, whatever the struct declares.
C11_Decoration ==
    (/\ phase # "source"
     /\ derived.tag = "tokens"
     /\ Cardinality({k \in 1..Len(Flatten(ast.attrs)) :
                        Flatten(ast.attrs)[k].path = "symbol"}) <= 1) =>
        \A i \in 1..Len(derived.clauses) :
            LET field == derived.meta.fields[derived.clauses[i].field]
                symbols == field_symbols(field, derived.meta)
                calls == expr_calls(derived.clauses[i].expr)
            IN  /\ Len(calls) = Len(symbols)
                /\ \A k \in 1..Len(symbols) :
                       calls[k].symbol =
                           IF symbols[k].name.kind = "CString"
                           THEN symbols[k].name.value
                           ELSE trim(WrittenAffix("prefix")) \o symbols[k].name.value
                                    \o trim(WrittenAffix("suffix"))

\* under a struct writing prefix " p" and suffix "s ", the implicit
\* candidate of a_b is looked up as pa_bs
C11_Witness ==
    /\ phase = "loaded"
    /\ WrittenAffix("prefix") = <<" ", "p">>
    /\ WrittenAffix("suffix") = <<"s", " ">>
    /\ Len(lookups) = 1
    /\ lookups[1].name = <<"p", "a", "_", "b", "s">>

\* the field writes exactly one item, symbol = [..], and these are its elements
SoleSymbolArray(field) ==
    /\ Len(Flatten(field.attrs)) = 1
    /\ Flatten(field.attrs)[1].path = "symbol"
    /\ Flatten(field.attrs)[1].arg.t = "eq"
    /\ Flatten(field.attrs)[1].arg.expr.k = "array"

ArrayElems(field) == Flatten(field.attrs)[1].arg.expr.elems

DebugSuffixes == {<<"d">>, <<"debug">>}

\* C12: a symbol literal suffixed d or debug is looked up with
\* Library::debug_symbol, one without suffix with Library::symbol, every
\* candidate with exactly one of the two; any other suffix is a schema
\* error that names the suffix.
C12_DebugSuffix ==
    phase # "source" =>
        \A i \in 1..Len(ast.fields) :
            SoleSymbolArray(ast.fields[i]) =>
                LET elems == ArrayElems(ast.fields[i])
                    bad == {k \in 1..Len(elems) :
                               /\ elems[k].k \in {"str", "cstr"}
                               /\ elems[k].suffix \notin DebugSuffixes \cup {<<>>}}
                IN  /\ \A k \in bad :
                           /\ derived.tag = "error"
                           /\ Diag("unexpected suffix on string literal", elems[k].suffix)
                                  \in Range(derived.recorded)
                    /\ derived.tag = "tokens" =>
                           \E c \in 1..Len(derived.clauses) :
                               LET calls == expr_calls(derived.clauses[c].expr) IN
                               /\ derived.clauses[c].field = i
                               /\ elems # <<>> => Len(calls) = Len(elems)
                               /\ \A k \in 1..Len(calls) :
                                      /\ calls[k].ident \in {"symbol", "debug_symbol"}
                                      /\ elems # <<>> =>
                                             (calls[k].ident = "debug_symbol"
                                                  <=> elems[k].suffix \in DebugSuffixes)
                    /\ (phase = "loaded" /\ elems # <<>>) =>
                           \A k \in 1..Len(lookups) :
                               lookups[k].fn = IF elems[k].suffix \in DebugSuffixes
                                               THEN "xdl_dsym" ELSE "xdl_sym"

\* a field declaring ["y"debug, "x"]: the first is looked up in .symtab
\* through debug_symbol
C12_Witness ==
    /\ phase = "loaded"
    /\ SoleSymbolArray(ast.fields[1])
    /\ Len(ArrayElems(ast.fields[1])) = 2
    /\ ArrayElems(ast.fields[1])[1].suffix = <<"debug">>
    /\ ArrayElems(ast.fields[1])[2].suffix = <<>>
    /\ lookups = << [fn |-> "xdl_dsym", name |-> <<"y">>] >>
    /\ loaded.ok

\* the rule in force for the one field of the schema
EffectiveRule ==
    IF WrittenRule(ast.fields[1].attrs) # "None" THEN WrittenRule(ast.fields[1].attrs)
    ELSE WrittenRule(ast.attrs)

\* C13: apply(CamelCase, s) is the PascalCase result of s with only its
\* first character lowercased, and apply returns a string for every rule
\* and every identifier, those made only of underscores included.
C13_CamelCaseTotal ==
    /\ \A r \in RenameRules, s \in Identifiers : apply_to_field(r, s) # Panicked
    /\ phase # "source" =>
           /\ derived.tag = "tokens"
           /\ EffectiveRule = "CamelCase" =>
                  LET pascal == apply_to_field("PascalCase", ast.fields[1].ident)
                      symbol == expr_calls(derived.clauses[1].expr)[1].symbol
                  IN  /\ Len(symbol) = Len(pascal)
                      /\ \A k \in 1..Len(pascal) :
                             symbol[k] = IF k = 1 THEN to_ascii_lowercase_char(pascal[1])
                                                  ELSE pascal[k]

\* the _-separated segments of s from position k on, each with its first
\* character uppercased, concatenated
RECURSIVE CapSegments(_, _)
CapSegments(s, k) ==
    IF k > Len(s) THEN <<>>
    ELSE (IF s[k] = "_" THEN <<>>
          ELSE << IF k = 1 \/ s[k - 1] = "_" THEN to_ascii_uppercase_char(s[k])
                                              ELSE s[k] >>)
         \o CapSegments(s, k + 1)

\* C14: apply(PascalCase, s) is the concatenation of the _-separated
\* segments of s, each with its first character uppercased and the rest
\* unchanged, and holds no underscore.
C14_PascalCase ==
    (phase # "source" /\ EffectiveRule = "PascalCase") =>
        /\ derived.tag = "tokens"
        /\ expr_calls(derived.clauses[1].expr)[1].symbol
               = CapSegments(ast.fields[1].ident, 1)
        /\ "_" \notin Range(expr_calls(derived.clauses[1].expr)[1].symbol)

\* a_B under PascalCase is looked up as AB
C14_Witness ==
    /\ phase = "loaded"
    /\ EffectiveRule = "PascalCase"
    /\ ast.fields[1].ident = <<"a", "_", "B">>
    /\ lookups = << [fn |-> "xdl_sym", name |-> <<"A", "B">>] >>

\* ASCII case of the characters identifiers are drawn from
LowerOf(ch) == CASE ch = "B" -> "b" [] OTHER -> ch
UpperOf(ch) == CASE ch = "a" -> "A" [] OTHER -> ch

\* C15: None and snake_case leave the name as it is, lowercase lowercases
\* it, UPPERCASE and SCREAMING_SNAKE_CASE uppercase it; each keeps the
\* length of the name and its underscores in place, and none splits words
\* at a change of case.
C15_CharacterwiseRules ==
    (phase # "source"
     /\ EffectiveRule \in {"None", "SnakeCase", "LowerCase", "UpperCase",
                           "ScreamingSnakeCase"}) =>
        /\ derived.tag = "tokens"
        /\ LET ident == ast.fields[1].ident
               symbol == expr_calls(derived.clauses[1].expr)[1].symbol
           IN  /\ Len(symbol) = Len(ident)
               /\ \A k \in 1..Len(ident) :
                      /\ symbol[k] = "_" <=> ident[k] = "_"
                      /\ symbol[k] =
                             CASE EffectiveRule \in {"None", "SnakeCase"} -> ident[k]
                               [] EffectiveRule = "LowerCase" -> LowerOf(ident[k])
                               [] OTHER -> UpperOf(ident[k])

\* aB under SCREAMING_SNAKE_CASE is looked up as AB, with no underscore
\* put between a and B
C15_Witness ==
    /\ phase = "loaded"
    /\ EffectiveRule = "ScreamingSnakeCase"
    /\ ast.fields[1].ident = <<"a", "B">>
    /\ lookups = << [fn |-> "xdl_sym", name |-> <<"A", "B">>] >>

\* the literals a symbol item writes: those of its array, or its one literal
WrittenElems(item) ==
    IF item.arg.expr.k = "array" THEN item.arg.expr.elems ELSE << item.arg.expr >>

\* the field writes one item, symbol = .., a literal or an array of
\* literals, each a string or a c-string with no suffix or a debug suffix
WellFormedSymbol(field) ==
    /\ Len(Flatten(field.attrs)) = 1
    /\ Flatten(field.attrs)[1].path = "symbol"
    /\ Flatten(field.attrs)[1].arg.t = "eq"
    /\ Flatten(field.attrs)[1].arg.expr.k \in {"str", "cstr", "array"}
    /\ WrittenElems(Flatten(field.attrs)[1]) # <<>>
    /\ \A e \in Range(WrittenElems(Flatten(field.attrs)[1])) :
           e.k \in {"str", "cstr"} /\ e.suffix \in DebugSuffixes \cup {<<>>}

\* C16: symbol = "..", symbol = c".." and symbol = [..] mixing both kinds
\* are accepted without schema error, and the elements become the
\* candidates in the order written.
C16_SymbolForms ==
    (/\ phase # "source"
     /\ ast.data = "named_struct"
     /\ ast.attrs = <<>>
     /\ \A i \in 1..Len(ast.fields) :
            /\ WellFormedSymbol(ast.fields[i])
            /\ ast.fields[i].ty.node \in {"BareFn", "Reference", "Ptr"}) =>
        /\ derived.tag = "tokens"
        /\ derived.recorded = <<>>
        /\ \A i \in 1..Len(derived.clauses) :
               LET elems == WrittenElems(Flatten(ast.fields[i].attrs)[1])
                   calls == expr_calls(derived.clauses[i].expr)
               IN  /\ Len(calls) = Len(elems)
                   /\ \A k \in 1..Len(elems) : CallOf(calls[k]) = DeclaredCall(elems[k])

\* the type is none of bare function, reference, raw pointer, or Option of one
UnsupportedType(ty) ==
    /\ ty.node \notin {"BareFn", "Reference", "Ptr"}
    /\ ~(ty.node = "Path" /\ ty.inner \in {"BareFn", "Reference", "Ptr"})

\* C17: a field of a type outside the supported set (i32, Option<i32>)
\* makes expand_derive fail with a diagnostic that names the type and the
\* set of supported types.
C17_UnsupportedTypeDiagnostic ==
    phase # "source" =>
        \A i \in 1..Len(ast.fields) :
            UnsupportedType(ast.fields[i].ty) =>
                /\ derived.tag = "error"
                /\ \E d \in Range(derived.recorded) :
                       /\ d.arg = << ast.fields[i].ty.text >>
                       /\ d.msg = "unsupported type, expected one of function, reference, pointer"

\* raw pointer, Option<raw pointer>, variadic function
NoAccessorType(ty) ==
    \/ ty.node = "Ptr"
    \/ ty.node = "Path" /\ ty.inner = "Ptr"
    \/ ty.node = "BareFn" /\ ty.variadic

\* C18: a raw-pointer, Option<raw pointer> or variadic-function field gets
\* no accessor and raises no schema error; load_from resolves it through
\* the same plan as any field, and when it is not an Option the exhaustion
\* of its candidates fails the load.
C18_NoAccessorStillLoaded ==
    phase # "source" =>
        \A i \in 1..Len(ast.fields) :
            NoAccessorType(ast.fields[i].ty) =>
                /\ \A d \in Range(derived.recorded) : d.arg # << ast.fields[i].ty.text >>
                /\ (ast.attrs = <<>> /\ ast.fields[i].attrs = <<>>) => derived.tag = "tokens"
                /\ derived.tag = "tokens" =>
                       /\ \A k \in 1..Len(derived.wrappers) : derived.wrappers[k].field # i
                       /\ \E c \in 1..Len(derived.clauses) :
                              /\ derived.clauses[c].field = i
                              /\ derived.clauses[c].optional <=> ast.fields[i].ty.node = "Path"
                              /\ [k \in 1..Len(expr_calls(derived.clauses[c].expr)) |->
                                     CallOf(expr_calls(derived.clauses[c].expr)[k])]
                                     = FieldPlan(i)
                /\ phase = "loaded" =>
                       /\ lookups = Attempted(FieldPlan(i))
                       /\ loaded.ok <=> (FirstSuccess(FieldPlan(i)) # 0
                                             \/ ast.fields[i].ty.node = "Path")
                       /\ (loaded.ok /\ FirstSuccess(FieldPlan(i)) # 0) =>
                              loaded.api[i].addr
                                  = AddressOf(FieldPlan(i)[FirstSuccess(FieldPlan(i))])

\* a variadic function field with two candidates, both missing: the load
\* fails after trying both
C18_Witness ==
    /\ phase = "loaded"
    /\ ast.fields[1].ty = TyVariadicFn
    /\ derived.wrappers = <<>>
    /\ Len(lookups) = 2
    /\ ~loaded.ok

\* the accessors generated for field i
AccessorsOf(i) ==
    {derived.wrappers[k] : k \in {j \in 1..Len(derived.wrappers) :
                                     derived.wrappers[j].field = i}}

\* C19: a &mut field f gets the accessor f(), taking &self, and one more
\* accessor taking &mut self and returning the mutable view, named f_mut as
\* the documentation calls it; a & field gets f() only.
C19_MutableAccessorName ==
    (phase # "source" /\ derived.tag = "tokens") =>
        \A i \in 1..Len(ast.fields) :
            LET f == ast.fields[i].ident IN
            /\ (ast.fields[i].ty.node = "Reference" /\ ast.fields[i].ty.mut) =>
                   AccessorsOf(i) =
                       { Accessor(f, "ref", i, FALSE),
                         Accessor(f \o <<"_", "m", "u", "t">>, "ref_mut", i, TRUE) }
            /\ (ast.fields[i].ty.node = "Reference" /\ ~ast.fields[i].ty.mut) =>
                   AccessorsOf(i) = { Accessor(f, "ref", i, FALSE) }

\* logging is enabled for field i: the field's logger option if written,
\* else the struct's, else off
LoggingEnabled(i) ==
    EffectiveBool(LoggerLeavesOf(ast.fields[i].attrs), LoggerLeavesOf(ast.attrs))

\* the events of one field with logging enabled: a warning per failed
\* attempt in attempt order, closed by the one trace event of the winning
\* candidate when there is one; nothing for the candidates after it
FieldEvents(calls) ==
    LET k == FirstSuccess(calls)
        warn(m) == [level |-> "warn", symbol |-> calls[m].name, addr |-> NULL]
    IN  IF k = 0 THEN [m \in 1..Len(calls) |-> warn(m)]
        ELSE [m \in 1..k |->
                 IF m < k THEN warn(m)
                 ELSE [level |-> "trace", symbol |-> calls[k].name,
                       addr |-> AddressOf(calls[k])]]

\* the events of a whole load: each field's in turn, ending with the first
\* required field that no candidate resolves
RECURSIVE ExpectedLogs(_)
ExpectedLogs(i) ==
    IF i > Len(derived.clauses) THEN <<>>
    ELSE LET f == derived.clauses[i].field
             calls == FieldPlan(f)
         IN  (IF LoggingEnabled(f) THEN FieldEvents(calls) ELSE <<>>) \o
             (IF FirstSuccess(calls) = 0 /\ ~derived.clauses[i].optional
              THEN <<>> ELSE ExpectedLogs(i + 1))

\* C20: a field with logging enabled emits exactly one trace event when it
\* resolves, naming the winning candidate and its address, and nothing for
\* the candidates never tried; when all its candidates fail it emits one
\* warning per failed attempt, in attempt order; a field with logging
\* disabled emits nothing.
C20_LoggingEvents ==
    (/\ phase = "loaded"
     /\ WrittenOnce(ast.attrs)
     /\ \A i \in 1..Len(ast.fields) : WrittenOnce(ast.fields[i].attrs)) =>
        /\ logs = ExpectedLogs(1)
        /\ (\A i \in 1..Len(ast.fields) : ~LoggingEnabled(i)) => logs = <<>>
        /\ (\A i \in 1..Len(ast.fields) : LoggingEnabled(i)) =>
               /\ Len(logs) = Len(lookups)
               /\ \A k \in 1..Len(logs) :
                      /\ logs[k].symbol = lookups[k].name
                      /\ logs[k].level = IF Exported(lookups[k]) THEN "trace" ELSE "warn"
                      /\ logs[k].level = "trace" => logs[k].addr = AddressOf(lookups[k])
               /\ loaded.ok =>
                      Cardinality({k \in 1..Len(logs) : logs[k].level = "trace"}) =
                          Cardinality({i \in 1..Len(loaded.api) : loaded.api[i].some})

\* logging is on; the first field fails its first candidate and resolves
\* with its second while a third is never tried: one warning, one trace
C20_Witness ==
    /\ phase = "loaded"
    /\ LoggingEnabled(1)
    /\ Len(FieldPlan(1)) = 3
    /\ Len(logs) >= 2
    /\ logs[1].level = "warn"
    /\ logs[2].level = "trace"
    /\ logs[2].addr = AddressOf(FieldPlan(1)[2])
    /\ Len(lookups) = 2

\* a load expression with the logging of every one of its lookups set to b
RECURSIVE SetLogger(_, _)
SetLogger(e, b) ==
    IF e.op = "call" THEN [e EXCEPT !.logger = b]
    ELSE [e EXCEPT !.acc = SetLogger(e.acc, b), !.expr = SetLogger(e.expr, b)]

\* the generated code with logging switched on or off for every field
WithLogging(tokens, b) ==
    [tokens EXCEPT !.clauses =
        [i \in 1..Len(tokens.clauses) |->
            [tokens.clauses[i] EXCEPT !.expr = SetLogger(tokens.clauses[i].expr, b)]]]

\* the same schema with the struct-level logger option written or left out
LoggerTwin(input) ==
    [input EXCEPT !.attrs = IF LoggerLeavesOf(input.attrs) = {}
                            THEN << << Meta("logger", ArgNone) >> >> ELSE <<>>]

\* what a load of the given tokens from the library of this state returns
LoadOf(tokens) == load_from(tokens, exports, [lookups |-> <<>>, logs |-> <<>>])

\* the load r has the outcome and the lookups of the load of this state
SameLoad(r) == r.res = loaded /\ r.lookups = lookups

\* the twin schema expands to the code of this state with the logging of
\* every field switched
TwinAgrees(twin) ==
    /\ twin.tag = "tokens"
    /\ \E b \in BOOLEAN :
           /\ derived.clauses = WithLogging(derived, ~b).clauses
           /\ twin.clauses = WithLogging(derived, b).clauses

\* C21: the outcome of load_from and the lookups it issues are the same
\* with logging enabled and with logging disabled: logging never suppresses
\* or replaces a result. The logger option of the schema changes nothing of
\* the generated code but the logging of its lookups, and a load of that
\* code with the logging of every field on, or off, returns what the load
\* of this state returned after the same lookups.
C21_LoggingIsUnobservable ==
    /\ (/\ phase = "expanded"
        /\ derived.tag = "tokens"
        /\ \A i \in 1..Len(ast.fields) : LoggerLeavesOf(ast.fields[i].attrs) = {}) =>
           TwinAgrees(expand_derive(LoggerTwin(ast)))
    /\ phase = "loaded" =>
           \A b \in BOOLEAN : SameLoad(LoadOf(WithLogging(derived, b)))

\* logging is on, warnings were emitted and the load still failed with the
\* error of the last lookup
C21_Witness ==
    /\ phase = "loaded"
    /\ LoggingEnabled(1)
    /\ Len(logs) >= 2
    /\ ~loaded.ok
    /\ loaded.err = SymbolNotFound(lookups[Len(lookups)].name)


\* the clauses i, i + 1, ... take their lookups in turn from position
\* from + 1 of the recorded lookups; stopped is TRUE once the plan of a
\* required field before clause i was exhausted
RECURSIVE DeclaredOrder(_, _, _)
DeclaredOrder(i, from, stopped) ==
    IF i > Len(derived.clauses) THEN Len(lookups) = from
    ELSE LET c == derived.clauses[i]
             calls == FieldPlan(c.field)
             attempts == Attempted(calls)
         IN  /\ c.field = i
             /\ IF stopped
                THEN /\ Len(lookups) <= from
                     /\ DeclaredOrder(i + 1, from, TRUE)
                ELSE /\ Len(lookups) > from
                     /\ lookups[from + 1] = calls[1]
                     /\ SubSeq(lookups, from + 1, from + Len(attempts)) = attempts
                     /\ DeclaredOrder(i + 1, from + Len(attempts),
                                      FirstSuccess(calls) = 0 /\ ~c.optional)

\* C25: load_from resolves the fields in declared order; after a required
\* field's plan is exhausted no lookup is issued for any later field, while
\* the exhaustion of an optional field's plan does not stop the resolution
\* of the later fields.
C25_DeclaredOrderStopAtRequired ==
    phase = "loaded" => DeclaredOrder(1, 0, FALSE)

\* an optional first field with its plan exhausted, and the second field
\* looked up after it
C25_Witness ==
    /\ phase = "loaded"
    /\ Len(derived.clauses) = 2
    /\ derived.clauses[1].optional
    /\ ~Resolves(1)
    /\ Len(lookups) = Len(FieldPlan(1)) + 1
    /\ lookups[Len(lookups)] = FieldPlan(2)[1]

\* the clauses i, i + 1, ... emit their events in turn from position
\* from + 1 of the log: a clause whose field has logging enabled emits one
\* warning per failed attempt and then the trace event of the winner
RECURSIVE WarningPerAttempt(_, _, _)
WarningPerAttempt(i, from, stopped) ==
    IF i > Len(derived.clauses) \/ stopped THEN Len(logs) = from
    ELSE LET c == derived.clauses[i]
             calls == FieldPlan(c.field)
             k == FirstSuccess(calls)
             n == IF LoggingEnabled(c.field) THEN Len(Attempted(calls)) ELSE 0
             events == SubSeq(logs, from + 1, from + n)
             warnings == {m \in 1..n : events[m].level = "warn"}
             traces == {m \in 1..n : events[m].level = "trace"}
         IN  /\ Len(logs) >= from + n
             /\ n > 0 =>
                    /\ Cardinality(warnings) = IF k = 0 THEN Len(calls) ELSE k - 1
                    /\ \A m \in warnings : events[m].symbol = calls[m].name
                    /\ traces = IF k = 0 THEN {} ELSE {k}
                    /\ \A m \in warnings, t \in traces : m < t
             /\ WarningPerAttempt(i + 1, from + n, k = 0 /\ ~c.optional)

\* C27: with logging enabled every failed attempt emits one warning, also
\* when a later candidate of the field succeeds: a field emits as many
\* warnings as candidates were tried before its first success (all of them
\* on exhaustion), and they all precede the trace event of the winner.
C27_WarningPerFailedAttempt ==
    (/\ phase = "loaded"
     /\ WrittenOnce(ast.attrs)
     /\ \A i \in 1..Len(ast.fields) : WrittenOnce(ast.fields[i].attrs)) =>
        WarningPerAttempt(1, 0, FALSE)

\* the first two candidates of a logged field fail and the third wins: two
\* warnings, then the trace event
C27_Witness ==
    /\ phase = "loaded"
    /\ LoggingEnabled(1)
    /\ FirstSuccess(FieldPlan(1)) = 3
    /\ Len(logs) >= 3
    /\ logs[1].level = "warn"
    /\ logs[2].level = "warn"
    /\ logs[3].level = "trace"


\* a list of attributes without its implicit(...) items
StripImplicit(attrs) ==
    [a \in 1..Len(attrs) |-> SelectSeq(attrs[a], LAMBDA m : m.path # "implicit")]

\* the same schema with no implicit(...) item on the struct or on any field
ImplicitTwin(input) ==
    [input EXCEPT !.attrs = StripImplicit(input.attrs),
                  !.fields = [i \in 1..Len(input.fields) |->
                                 [input.fields[i] EXCEPT !.attrs = StripImplicit(@)]]]

\* the symbol items a field writes
FieldSymbolItems(field) ==
    SelectSeq(Flatten(field.attrs), LAMBDA m : m.path = "symbol")

\* C28: the lookup kind and the name of an explicit candidate do not depend
\* on the implicit options: implicit(debug) at either level never makes it
\* a debug lookup (only its literal suffix does), and the rename rule never
\* alters its name.
C28_ExplicitIgnoresImplicit ==
    (phase # "source" /\ derived.tag = "tokens") =>
        LET twin == expand_derive(ImplicitTwin(ast)) IN
        /\ twin.tag = "tokens"
        /\ Len(twin.clauses) = Len(derived.clauses)
        /\ \A i \in 1..Len(derived.clauses) :
               LET field == ast.fields[derived.clauses[i].field]
                   calls == expr_calls(derived.clauses[i].expr)
                   elems == WrittenElems(FieldSymbolItems(field)[1])
               IN  derived.meta.fields[derived.clauses[i].field].attrs.symbols # <<>> =>
                       /\ twin.clauses[i].expr = derived.clauses[i].expr
                       /\ Len(FieldSymbolItems(field)) = 1 =>
                              /\ Len(calls) = Len(elems)
                              /\ \A k \in 1..Len(calls) :
                                     /\ (calls[k].ident = "debug_symbol") <=>
                                            (elems[k].suffix \in DebugSuffixes)
                                     /\ StructSymbolItems = {} =>
                                            calls[k].symbol = elems[k].value

\* the struct writes implicit(debug), the field writes symbol = "x", and x
\* is looked up in .dynsym under its own name
C28_Witness ==
    /\ phase = "loaded"
    /\ Meta("debug", ArgNone) \in DebugLeaves(ast.attrs)
    /\ HasLiteralSymbol(ast.fields[1])
    /\ lookups = << [fn |-> "xdl_sym", name |-> <<"x">>] >>

\* the last item of the given path a list of attributes writes, and the
\* last option of the given key that item writes
ItemsOf(attrs, path) == SelectSeq(Flatten(attrs), LAMBDA m : m.path = path)
LastItem(attrs, path) == ItemsOf(attrs, path)[Len(ItemsOf(attrs, path))]
OptionsOf(item, key) == SelectSeq(item.arg.items, LAMBDA m : m.path = key)
LastOption(item, key) == OptionsOf(item, key)[Len(OptionsOf(item, key))]

\* the implicit options of the last implicit(...) alone, the defaults where
\* it writes none
LastImplicit(attrs) ==
    IF ItemsOf(attrs, "implicit") = <<>> THEN ImplicitDefault
    ELSE LET last == LastItem(attrs, "implicit") IN
         [rename |-> IF OptionsOf(last, "rename") = <<>> THEN "None"
                     ELSE from_str(LastOption(last, "rename").arg.expr.value).rule,
          debug |-> IF OptionsOf(last, "debug") = <<>> THEN "None"
                    ELSE Some(WrittenBool(LastOption(last, "debug")))]

\* the prefix and suffix of the last symbol(...) alone
LastAffix(attrs, key) ==
    IF ItemsOf(attrs, "symbol") = <<>> THEN NoneStr
    ELSE LET last == LastItem(attrs, "symbol") IN
         IF OptionsOf(last, key) = <<>> THEN NoneStr
         ELSE SomeStr(LastOption(last, key).arg.expr.value)

\* C29: when implicit(...) (or the struct's symbol(...)) is written more
\* than once on a struct or a field, the last one replaces the earlier one
\* entirely: an option only the earlier one sets is back at its default.
C29_LastOccurrenceReplaces ==
    (phase # "source" /\ derived.tag = "tokens") =>
        /\ derived.meta.attrs.implicit = LastImplicit(ast.attrs)
        /\ derived.meta.attrs.symbol.prefix = LastAffix(ast.attrs, "prefix")
        /\ derived.meta.attrs.symbol.suffix = LastAffix(ast.attrs, "suffix")
        /\ \A i \in 1..Len(ast.fields) :
               /\ derived.meta.fields[i].attrs.implicit = LastImplicit(ast.fields[i].attrs)
               /\ (/\ Len(ItemsOf(ast.fields[i].attrs, "implicit")) > 1
                   /\ ItemsOf(ast.attrs, "implicit") = <<>>
                   /\ OptionsOf(LastItem(ast.fields[i].attrs, "implicit"), "rename") = <<>>
                   /\ ~HasLiteralSymbol(ast.fields[i])) =>
                      \A k \in 1..Len(derived.clauses) :
                          derived.clauses[k].field = i =>
                              Contains(expr_calls(derived.clauses[k].expr)[1].symbol,
                                       ast.fields[i].ident)

\* the field writes implicit(rename = "UPPERCASE") and then implicit(debug):
\* it is looked up in .symtab under its unrenamed name
C29_Witness ==
    /\ phase = "loaded"
    /\ Len(ItemsOf(ast.fields[1].attrs, "implicit")) = 2
    /\ OptionsOf(ItemsOf(ast.fields[1].attrs, "implicit")[1], "rename") # <<>>
    /\ OptionsOf(ItemsOf(ast.fields[1].attrs, "implicit")[2], "debug") # <<>>
    /\ lookups = << [fn |-> "xdl_dsym", name |-> <<"a", "_", "b">>] >>


\* C30: every rename rule is idempotent: renaming a renamed name again
\* gives the same name, for each rule and every field name the rule is
\* defined on.
C30_RenameIdempotent ==
    /\ \A r \in RenameRules :
           LET once == apply_to_field(r, ast.fields[1].ident) IN
           once # Panicked => apply_to_field(r, once) = once
    /\ (phase # "source" /\ derived.tag = "tokens") =>
           LET name == expr_calls(derived.clauses[1].expr)[1].symbol IN
           /\ name = apply_to_field(EffectiveRule, ast.fields[1].ident)
           /\ apply_to_field(EffectiveRule, name) = name

\* a_B under camelCase is looked up as aB, which camelCase leaves as it is
C30_Witness ==
    /\ phase = "loaded"
    /\ EffectiveRule = "CamelCase"
    /\ ast.fields[1].ident = <<"a", "_", "B">>
    /\ lookups = << [fn |-> "xdl_sym", name |-> <<"a", "B">>] >>
    /\ apply_to_field("CamelCase", lookups[1].name) = lookups[1].name


\* C22: under any sequence of from, deref, deref_mut, library and drop on
\* one or more Containers, no accessor uses an address resolved from a
\* library that is already closed: the library of a live Container is open,
\* and every address of its api was resolved from that library.
C22_NoUseAfterClose ==
    /\ outcome.op = "accessor" => ~outcome.subject.closed
    /\ \A c \in Live :
           /\ handles[containers[c].lib.handle].state = "open"
           /\ \A i \in 1..Len(containers[c].api) :
                  /\ containers[c].api[i].origin = containers[c].lib.handle
                  /\ handles[containers[c].api[i].origin].state = "open"


\* C23: Library::open and open_with_flags with an empty name return
\* OpeningLibraryError without calling the loader; with a name for which
\* the loader returns null they return OpeningLibraryError carrying the
\* name; otherwise a Library holding the handle returned.  No Library holds
\* a null handle.
C23_OpenOutcome ==
    /\ outcome.op \in {"open", "open_with_flags"} =>
           LET name == outcome.subject.name
               calls == outcome.calls
           IN  /\ outcome.op = "open" => outcome.subject.flags = XDL_DEFAULT
               /\ SubSeq(ffi, Len(ffi) - Len(calls) + 1, Len(ffi)) = calls
               /\ name = <<>> =>
                      /\ calls = <<>>
                      /\ ~outcome.res.ok
                      /\ outcome.res.err.variant = "OpeningLibraryError"
               /\ name # <<>> =>
                      /\ calls = << FfiCall("xdl_open", NullHandle, name,
                                            outcome.subject.flags, calls[1].ret) >>
                      /\ calls[1].ret = NullHandle =>
                             /\ ~outcome.res.ok
                             /\ outcome.res.err.variant = "OpeningLibraryError"
                             /\ Contains(outcome.res.err.payload, name)
                      /\ calls[1].ret # NullHandle =>
                             /\ outcome.res.ok
                             /\ outcome.res.val.handle = calls[1].ret
                             /\ calls[1].ret \in owned
    /\ NullHandle \notin owned
    /\ \A c \in 1..Len(containers) : containers[c].lib.handle # NullHandle

\* the loader answered null for the name z, and the error carries z
C23_Witness ==
    /\ outcome.op = "open_with_flags"
    /\ outcome.subject.name = <<"z">>
    /\ outcome.subject.flags = XDL_TRY_FORCE_LOAD
    /\ outcome.calls = << FfiCall("xdl_open", NullHandle, <<"z">>,
                                  XDL_TRY_FORCE_LOAD, NullHandle) >>
    /\ ~outcome.res.ok
    /\ outcome.res.err = OpeningLibraryError(<<Quote, "z", Quote>>)

\* the xdl_close calls issued on handle h, and whether the Library holding
\* h was dropped (alone or with its Container)
Closes(h) == {i \in 1..Len(ffi) : ffi[i].fn = "xdl_close" /\ ffi[i].handle = h}
Dropped(h) == h \notin owned /\ \A c \in Live : containers[c].lib.handle # h

\* C24: every Library that was constructed calls xdl_close on its handle
\* exactly once, when it is dropped, and then dlclose exactly when
\* xdl_close returned a non-null linker handle; a failed open issues no
\* xdl_close.
C24_CloseOnceThenDlclose ==
    /\ \A h \in 1..Len(handles) :
           /\ Cardinality(Closes(h)) = IF Dropped(h) THEN 1 ELSE 0
           /\ handles[h].state = "closed" <=> Dropped(h)
    /\ outcome.op \in {"drop", "drop_library"} =>
           /\ outcome.calls[1].fn = "xdl_close"
           /\ Len(outcome.calls) = IF outcome.calls[1].ret # NullHandle THEN 2 ELSE 1
    /\ \A i \in 1..Len(ffi) :
           /\ ffi[i].fn = "xdl_close" =>
                  /\ ffi[i].handle \in 1..Len(handles)
                  /\ ffi[i].ret # NullHandle <=> handles[ffi[i].handle].linker
                  /\ ffi[i].ret # NullHandle <=>
                         /\ i < Len(ffi)
                         /\ ffi[i + 1] = FfiCall("dlclose", ffi[i].ret, <<>>, 0, 0)
           /\ ffi[i].fn = "dlclose" =>
                  /\ ffi[i].handle # NullHandle
                  /\ i > 1
                  /\ ffi[i - 1].fn = "xdl_close"
                  /\ ffi[i - 1].ret = ffi[i].handle
           /\ (ffi[i].fn = "xdl_open" /\ ffi[i].ret = NullHandle) =>
                  Len(handles) = Cardinality({j \in 1..Len(ffi) :
                                     ffi[j].fn = "xdl_open" /\ ffi[j].ret # NullHandle})

\* two libraries were dropped: one xdl_close returned the linker's handle
\* and dlclose followed, the other returned null and nothing followed
C24_Witness ==
    /\ Len(ffi) = 5
    /\ ffi[3].fn = "xdl_close"
    /\ ffi[3].ret # NullHandle
    /\ ffi[4].fn = "dlclose"
    /\ ffi[5].fn = "xdl_close"
    /\ ffi[5].ret = NullHandle

\* C26: when load_from fails inside Container::from the library passed in
\* is closed exactly once before the error is returned, and no Container is
\* made; when it succeeds the library stays open until the Container is
\* dropped.
C26_FromClosesOnFailure ==
    /\ outcome.op = "from" =>
           LET h == outcome.subject.handle IN
           /\ h \notin owned
           /\ ~outcome.res.ok =>
                  /\ outcome.res.err.variant = "SymbolNotFound"
                  /\ Cardinality(Closes(h)) = 1
                  /\ outcome.calls[1] = ffi[CHOOSE i \in Closes(h) : TRUE]
                  /\ handles[h].state = "closed"
                  /\ \A c \in 1..Len(containers) : containers[c].lib.handle # h
           /\ outcome.res.ok =>
                  /\ outcome.calls = <<>>
                  /\ Closes(h) = {}
                  /\ handles[h].state = "open"
                  /\ containers[Len(containers)].live
                  /\ containers[Len(containers)].lib.handle = h
    /\ \A c \in 1..Len(containers) :
           /\ containers[c].live =>
                  /\ Closes(containers[c].lib.handle) = {}
                  /\ handles[containers[c].lib.handle].state = "open"
           /\ ~containers[c].live => Cardinality(Closes(containers[c].lib.handle)) = 1

\* Container::from failed on a library loaded with dlopen: the call closed
\* it with xdl_close and dlclose, and no Container exists
C26_Witness ==
    /\ outcome.op = "from"
    /\ ~outcome.res.ok
    /\ Len(outcome.calls) = 2
    /\ outcome.calls[2].fn = "dlclose"
    /\ containers = <<>>


==========================================================================
